---- MODULE Spec2Model ----
(***************************************************************************)
(* The audio transcription job pipeline of media_toolkit/audiototext:      *)
(* tasks.py (Job, JobManager, get_manager, the snapshot store) and the     *)
(* status query of routes.py (job_status).                                 *)
(*                                                                         *)
(* Threads: the callers (request handlers calling get_manager(), enqueue() *)
(* and the status query) and the worker threads created by start().  Each  *)
(* action is one step of one thread between two accesses to shared state   *)
(* (the module global _manager, a manager's fields, a Job object, the      *)
(* files under jobs/ and results/).                                        *)
(***************************************************************************)
EXTENDS Naturals, Sequences, FiniteSets, TLC

\* Bounds of the model: the caller threads, the jobs enqueued in SpecQueue and
\* SpecRace, the jobs enqueued in Spec (which also has status queries and a
\* restart), the restarts of the process, and the failures of the disk and of
\* the providers in one run.
NumCallers == 2
MaxJobs == 2
MaxJobsSpec == 1
MaxRestarts == 1
MaxFaults == 1
\* The fallback languages of STT_LANG_FALLBACKS, and the speaker counts.
MaxFallbacks == 2
MaxSpeakers == 3

Callers == 1 .. NumCallers
\* A JobManager object is named after the caller that constructed it.
Managers == 1 .. NumCallers
\* uuid4 job ids; enqueue hands them out, never twice.
JobIds == 1 .. MaxJobs
\* Ids a status query may ask for: the jobs, and id 0, which was never
\* enqueued by this process (a result file of an earlier deployment).
QueryIds == 0 .. MaxJobs
\* A worker thread is named after its manager and the caller whose start()
\* created it.
Workers == Managers \X Callers

None == "None"

VARIABLES
    _manager,   \* tasks.py:313, the module global: 0 (None) or a manager
    _started,   \* JobManager._started, per manager
    q,          \* JobManager.q, per manager: the queue of job ids
    jobs,       \* JobManager.jobs, per manager: the ids in the table
    job,        \* the Job objects in memory, by id
    snap,       \* jobs/<id>.json on disk
    results,    \* results/transcription_<id>.json on disk
    worker,     \* the worker threads: position in _run and locals
    caller,     \* the caller threads: position and locals
    recog,      \* what the recognition provider answered for each job
    nextJob,    \* number of job ids handed out
    restarts,   \* number of process restarts so far
    faults,     \* number of failures of the disk and of the providers so far
    _lock,      \* JobManager._lock, per manager: 0 (free) or the holding thread
    stt,        \* one call of stt_google_from_file / stt_google_from_gcs
    files       \* the audio files the pipeline made on disk: the downloads
                \* under uploads/ by job id, and the WAV of the conversion

vars == <<_manager, _started, q, jobs, job, snap, results, worker, caller,
          recog, nextJob, restarts, faults, _lock, stt, files>>

-----------------------------------------------------------------------------
\* Data

\* Job (tasks.py:41-50); status "absent" stands for no object.
\* The params of a job that matter to _run (tasks.py:241, 245): the speaker
\* count, 0 for a count that is 0 or absent, and the word-time-offsets flag,
\* "True", "False", or None for a flag that is absent.  The handlers of routes.py build them.
DefaultParams ==
    [diarization_speaker_count |-> 0, enable_word_time_offsets |-> None]

NoJob ==
    [status |-> "absent", result_path |-> 0, error |-> None,
     file_path |-> None, gcs_uri |-> None, youtube_url |-> None,
     params |-> DefaultParams]

\* The (file_path, gcs_uri, youtube_url) arguments of enqueue
\* (tasks.py:167-173): an uploaded file, a remote URI, a YouTube URL, another
\* URL, the empty path, and nothing at all; with the default params.
Sources ==
    { [file_path |-> "upload", gcs_uri |-> None, youtube_url |-> None,
       params |-> DefaultParams],
      [file_path |-> None, gcs_uri |-> "given", youtube_url |-> None,
       params |-> DefaultParams],
      [file_path |-> None, gcs_uri |-> None, youtube_url |-> "youtube",
       params |-> DefaultParams],
      [file_path |-> None, gcs_uri |-> None, youtube_url |-> "other",
       params |-> DefaultParams],
      [file_path |-> "", gcs_uri |-> None, youtube_url |-> None,
       params |-> DefaultParams],
      [file_path |-> None, gcs_uri |-> None, youtube_url |-> None,
       params |-> DefaultParams] }

\* Python's "not x" for an optional string.
Falsy(x) == x \in {None, ""}

NewJob(src) ==
    [status |-> "queued", result_path |-> 0, error |-> None,
     file_path |-> src.file_path, gcs_uri |-> src.gcs_uri,
     youtube_url |-> src.youtube_url, params |-> src.params]

\* A snapshot document; status "absent" stands for no file.
NoSnap ==
    [status |-> "absent", result_path |-> 0, error |-> None,
     file_path |-> None, gcs_uri |-> None]

_job_to_state(jb) ==
    [status |-> jb.status, result_path |-> jb.result_path, error |-> jb.error,
     file_path |-> jb.file_path, gcs_uri |-> jb.gcs_uri]

\* A file that was opened for writing at its own path and not written to its
\* end.
Truncated == [NoSnap EXCEPT !.status = "truncated"]

\* tasks.py:146-150  json.load of a snapshot file; an exception gives None
json_load(doc) == IF doc.status = "truncated" THEN NoSnap ELSE doc

\* os.path.isfile on a result path.
IsFile(id) == results[id] # "absent"

NoWorker ==
    [pc |-> "none", job |-> 0, exc |-> None, result |-> None, saved |-> None,
     enable_word_time_offsets |-> FALSE]

NoResp == [tier |-> 0, status |-> None, locator |-> 0, error |-> None]

IdleCaller ==
    [pc |-> "idle", op |-> None, ret |-> None, mgr |-> 0, id |-> 0,
     state |-> NoSnap,
     t1 |-> "unasked", t2 |-> "unasked", t3 |-> "unasked", resp |-> NoResp]

\* No diarization_config (google_stt.py:162, 292), and no return value.  The
\* meta of a result is the one _attach_meta puts there; via None stands for
\* a result without meta.
NoDiar == [enable |-> FALSE, min |-> 0, max |-> 0]
NoResult ==
    [transcript |-> None,
     meta |-> [via |-> None, lang |-> None, diarization_enabled |-> FALSE,
               diarization_min |-> 0, diarization_max |-> 0,
               model |-> None, use_enhanced |-> FALSE]]

\* No call of the recognition functions is under way.  sync and gcs are the
\* calls of client.recognize and of client.long_running_recognize the call
\* has made, in order.
NoStt ==
    [pc |-> "none", fn |-> None, isfile |-> FALSE, size |-> 0,
     language_code |-> None, fallbacks |-> <<>>, N |-> 0, env_diar |-> FALSE,
     bucket |-> FALSE, enable_word_time_offsets |-> FALSE,
     model |-> None, use_enhanced |-> None, src |-> None,
     tmp_wav |-> "unset", i |-> 0, lang |-> None,
     force |-> FALSE, sync |-> <<>>, gcs |-> <<>>, best |-> NoResult,
     ret |-> NoResult, exc |-> None]

\* No audio file made by the pipeline is on disk.
NoFiles == [download |-> {}, wav |-> "absent"]

\* The process after start, with no snapshot and the result file of an
\* earlier deployment on disk.
InitProcess ==
    /\ _manager = 0
    /\ _started = [m \in Managers |-> FALSE]
    /\ _lock = [m \in Managers |-> 0]
    /\ q = [m \in Managers |-> <<>>]
    /\ jobs = [m \in Managers |-> {}]
    /\ snap = [i \in QueryIds |-> NoSnap]
    /\ results = [i \in QueryIds |-> IF i = 0 THEN "text" ELSE "absent"]
    /\ worker = [w \in Workers |-> NoWorker]
    /\ caller = [c \in Callers |-> IdleCaller]
    /\ recog = [j \in JobIds |-> None]
    /\ nextJob = 0
    /\ restarts = 0
    /\ faults = 0
    /\ files = NoFiles

Init ==
    /\ InitProcess
    /\ job = [j \in JobIds |-> NoJob]
    /\ stt = NoStt

-----------------------------------------------------------------------------
\* A call to the disk or to a provider fails: the environment may do so
\* MaxFaults times.
Fault == faults < MaxFaults /\ faults' = faults + 1

-----------------------------------------------------------------------------
\* get_manager() and JobManager.start()

Goto(c, pc) == [caller EXCEPT ![c].pc = pc]

\* A request handler starts: routes.py:117-118 (youtube_start) and 157
\* (upload_audio) call get_manager() and then enqueue(); the job id is the
\* uuid4 of tasks.py:174, which no other call draws.
CallEnqueue(c, limit) ==
    /\ caller[c].pc = "idle"
    /\ nextJob < limit
    /\ nextJob' = nextJob + 1
    /\ caller' = [caller EXCEPT ![c].pc = "gm_check", ![c].op = "enqueue",
                                ![c].id = nextJob + 1]
    /\ UNCHANGED <<_manager, _started, q, jobs, job, snap, results, worker,
                   recog, restarts, faults, _lock, stt, files>>

\* routes.py:172-174  job_status(job_id) calls get_manager() and then get()
CallStatus(c) ==
    /\ caller[c].pc = "idle"
    /\ \E id \in QueryIds :
          caller' = [caller EXCEPT ![c].pc = "gm_check", ![c].op = "status",
                                   ![c].id = id]
    /\ UNCHANGED <<_manager, _started, q, jobs, job, snap, results, worker,
                   recog, nextJob, restarts, faults, _lock, stt, files>>

\* tasks.py:318  if _manager is None:
GmCheck(c) ==
    /\ caller[c].pc = "gm_check"
    /\ caller' = Goto(c, IF _manager = 0 THEN "gm_new" ELSE "gm_ret")
    /\ UNCHANGED <<_manager, _started, q, jobs, job, snap, results, worker,
                   recog, nextJob, restarts, faults, _lock, stt, files>>

\* tasks.py:319  _manager = JobManager()
GmNew(c) ==
    /\ caller[c].pc = "gm_new"
    /\ _manager' = c
    /\ _started' = [_started EXCEPT ![c] = FALSE]
    /\ q' = [q EXCEPT ![c] = <<>>]
    /\ jobs' = [jobs EXCEPT ![c] = {}]
    /\ _lock' = [_lock EXCEPT ![c] = 0]
    /\ caller' = Goto(c, "gm_load")
    /\ UNCHANGED <<job, snap, results, worker, recog, nextJob, restarts, faults,
                   stt, files>>

\* tasks.py:320  _manager.start(): the global is read again
GmLoad(c) ==
    /\ caller[c].pc = "gm_load"
    /\ caller' = [caller EXCEPT ![c].pc = "start_check", ![c].mgr = _manager,
                                ![c].ret = "gm_ret"]
    /\ UNCHANGED <<_manager, _started, q, jobs, job, snap, results, worker,
                   recog, nextJob, restarts, faults, _lock, stt, files>>

\* tasks.py:162-164  if not self._started: create the thread and start it
StartCheck(c) ==
    /\ caller[c].pc = "start_check"
    /\ LET m == caller[c].mgr IN
       IF _started[m]
       THEN /\ caller' = Goto(c, caller[c].ret)
            /\ UNCHANGED worker
       ELSE /\ worker' = [worker EXCEPT ![<<m, c>>] =
                              [NoWorker EXCEPT !.pc = "idle"]]
            /\ caller' = Goto(c, "start_set")
    /\ UNCHANGED <<_manager, _started, q, jobs, job, snap, results,
                   recog, nextJob, restarts, faults, _lock, stt, files>>

\* tasks.py:165  self._started = True
StartSet(c) ==
    /\ caller[c].pc = "start_set"
    /\ _started' = [_started EXCEPT ![caller[c].mgr] = TRUE]
    /\ caller' = Goto(c, caller[c].ret)
    /\ UNCHANGED <<_manager, q, jobs, job, snap, results, worker,
                   recog, nextJob, restarts, faults, _lock, stt, files>>

\* tasks.py:321  return _manager
GmRet(c) ==
    /\ caller[c].pc = "gm_ret"
    /\ caller' = [caller EXCEPT ![c].pc = "have_mgr", ![c].mgr = _manager,
                                ![c].ret = None]
    /\ UNCHANGED <<_manager, _started, q, jobs, job, snap, results, worker,
                   recog, nextJob, restarts, faults, _lock, stt, files>>

-----------------------------------------------------------------------------
\* JobManager.enqueue()

\* The with block ends and the lock stays held.
hold(m) == UNCHANGED _lock

\* tasks.py:176  with self._lock: the thread waits until the lock is free
acquire(m, t) == _lock[m] = 0 /\ _lock' = [_lock EXCEPT ![m] = t]

\* tasks.py:177, 193  the end of the with block
release(m) == _lock' = [_lock EXCEPT ![m] = 0]

\* tasks.py:176  with self._lock:
EnqAcquire(c) ==
    /\ caller[c].pc = "have_mgr"
    /\ caller[c].op = "enqueue"
    /\ acquire(caller[c].mgr, c)
    /\ caller' = Goto(c, "enq_table")
    /\ UNCHANGED <<_manager, _started, q, jobs, job, snap, results, worker,
                   recog, nextJob, restarts, faults, stt, files>>

\* tasks.py:175-177  the Job object, and jobs[job_id] = job under the lock
EnqTable(c, sources) ==
    /\ caller[c].pc = "enq_table"
    /\ release(caller[c].mgr)
    /\ \E src \in sources :
          job' = [job EXCEPT ![caller[c].id] = NewJob(src)]
    /\ jobs' = [jobs EXCEPT ![caller[c].mgr] = @ \cup {caller[c].id}]
    /\ caller' = Goto(c, "enq_put")
    /\ UNCHANGED <<_manager, _started, q, snap, results, worker, recog,
                   nextJob, restarts, faults, stt, files>>

\* The job is put at the head of the queue.
EnqPutFront(c) ==
    /\ caller[c].pc = "enq_put"
    /\ q' = [q EXCEPT ![caller[c].mgr] = <<caller[c].id>> \o @]
    /\ caller' = Goto(c, "enq_state")
    /\ UNCHANGED <<_manager, _started, jobs, job, snap, results, worker,
                   recog, nextJob, restarts, faults, _lock, stt, files>>

\* tasks.py:178  self.q.put(job)
EnqPut(c) ==
    /\ caller[c].pc = "enq_put"
    /\ q' = [q EXCEPT ![caller[c].mgr] = Append(@, caller[c].id)]
    /\ caller' = Goto(c, "enq_state")
    /\ UNCHANGED <<_manager, _started, jobs, job, snap, results, worker,
                   recog, nextJob, restarts, faults, _lock, stt, files>>

\* tasks.py:139  the argument of _atomic_write_json: _job_to_state(job)
\* reads the Job object as it is now
EnqState(c) ==
    /\ caller[c].pc = "enq_state"
    /\ caller' = [caller EXCEPT ![c].pc = "enq_write",
                                ![c].state = _job_to_state(job[caller[c].id])]
    /\ UNCHANGED <<_manager, _started, q, jobs, job, snap, results, worker,
                   recog, nextJob, restarts, faults, _lock, stt, files>>

\* tasks.py:70-81  _atomic_write_json: the document is written to a temp file
\* and installed by one os.replace, or the call raises and installs nothing
_atomic_write_json(id, payload) ==
    snap' = [snap EXCEPT ![id] = payload]

\* tasks.py:179  save_job_state(job) returns, then 188 self.start()
EnqWrite(c) ==
    /\ caller[c].pc = "enq_write"
    /\ _atomic_write_json(caller[c].id, caller[c].state)
    /\ caller' = [caller EXCEPT ![c].pc = "start_check", ![c].ret = "enq_ret",
                                ![c].state = NoSnap]
    /\ UNCHANGED <<_manager, _started, q, jobs, job, results, worker,
                   recog, nextJob, restarts, faults, _lock, stt, files>>

\* tasks.py:179  save_job_state(job) raises: enqueue raises, start() is not
\* called
EnqWriteRaises(c) ==
    /\ caller[c].pc = "enq_write"
    /\ Fault
    /\ caller' = [caller EXCEPT ![c] = IdleCaller]
    /\ UNCHANGED <<_manager, _started, q, jobs, job, snap, results, worker,
                   recog, nextJob, restarts, _lock, stt, files>>

\* tasks.py:189  return job_id
EnqRet(c) ==
    /\ caller[c].pc = "enq_ret"
    /\ caller' = [caller EXCEPT ![c] = IdleCaller]
    /\ UNCHANGED <<_manager, _started, q, jobs, job, snap, results, worker,
                   recog, nextJob, restarts, faults, _lock, stt, files>>

-----------------------------------------------------------------------------
\* JobManager._run(), the worker loop

\* The worker moves to pc; an exception exc sends it to the handler of
\* tasks.py:304.
Step(w, pc) == [worker EXCEPT ![w].pc = pc]
Raise(w, exc) == [worker EXCEPT ![w].pc = "except_status", ![w].exc = exc]

\* The call the worker is at raises exc: a failure of the disk or of a
\* provider.
Raises(w, exc) ==
    /\ Fault
    /\ worker' = Raise(w, exc)
    /\ UNCHANGED <<_manager, _started, q, jobs, job, snap, results, caller,
                   recog, nextJob, restarts, _lock, stt, files>>

\* tasks.py:138-139  save_job_state(job), called by the thread that owns job
save_job_state(id) == _atomic_write_json(id, _job_to_state(job[id]))

\* The worker's save_job_state(job) returns and the worker goes on at next.
Saves(w, next) ==
    /\ save_job_state(worker[w].job)
    /\ worker' = [worker EXCEPT ![w].pc = next,
                                ![w].saved = job[worker[w].job].gcs_uri]
    /\ UNCHANGED <<_manager, _started, q, jobs, job, results, caller, recog,
                   nextJob, restarts, faults, _lock, stt, files>>

\* The job is read from the queue and left on it.
DequeuePeek(w) ==
    /\ worker[w].pc = "idle"
    /\ q[w[1]] # <<>>
    /\ LET id == Head(q[w[1]]) IN
       /\ job' = [job EXCEPT ![id].status = "processing"]
       /\ worker' = [worker EXCEPT ![w].pc = "save_processing", ![w].job = id]
    /\ UNCHANGED <<_manager, _started, q, jobs, snap, results, caller, recog,
                   nextJob, restarts, faults, _lock, stt, files>>

\* tasks.py:198-200  job = self.q.get(); job.status = "processing"
Dequeue(w) ==
    /\ worker[w].pc = "idle"
    /\ q[w[1]] # <<>>
    /\ LET id == Head(q[w[1]]) IN
       /\ q' = [q EXCEPT ![w[1]] = Tail(@)]
       /\ job' = [job EXCEPT ![id].status = "processing"]
       /\ worker' = [worker EXCEPT ![w].pc = "save_processing", ![w].job = id]
    /\ UNCHANGED <<_manager, _started, jobs, snap, results, caller, recog,
                   nextJob, restarts, faults, _lock, stt, files>>

\* tasks.py:201  save_job_state(job)
SaveProcessing(w) ==
    /\ worker[w].pc = "save_processing"
    /\ Saves(w, "acquire")
SaveProcessingRaises(w) ==
    /\ worker[w].pc = "save_processing"
    /\ Raises(w, "OSError")

\* Every URL passes for a YouTube URL.
LooksLikeAnything(url) == TRUE

\* tasks.py:213  re.match(r"^https?://(www\.)?(youtube\.com|youtu\.be)/", url)
LooksLikeYoutube(url) == url = "youtube"

\* tasks.py:214, 238  str() of RuntimeError("Download YouTube failed:
\* RuntimeError: URL nie wyglada na YouTube")
UrlValidationMsg == "Download YouTube failed: URL"

\* tasks.py:205-214, 231-238  the origin-URL branch is taken when the URL is
\* the only source; a URL that fails the pattern raises before any download
Acquire(w) ==
    /\ worker[w].pc = "acquire"
    /\ LET jb == job[worker[w].job] IN
       worker' =
          IF ~Falsy(jb.youtube_url) /\ Falsy(jb.file_path) /\ Falsy(jb.gcs_uri)
          THEN IF LooksLikeYoutube(jb.youtube_url)
               THEN Step(w, "yt_download")
               ELSE Raise(w, UrlValidationMsg)
          ELSE Step(w, "upload")
    /\ UNCHANGED <<_manager, _started, q, jobs, job, snap, results, caller,
                   recog, nextJob, restarts, faults, _lock, stt, files>>

\* tasks.py:215-218  _download_youtube_audio returns a file;
\* job.file_path = dl_path
YtDownload(w) ==
    /\ worker[w].pc = "yt_download"
    /\ job' = [job EXCEPT ![worker[w].job].file_path = "download"]
    /\ files' = [files EXCEPT !.download = @ \cup {worker[w].job}]
    /\ worker' = Step(w, "yt_save_file")
    /\ UNCHANGED <<_manager, _started, q, jobs, snap, results, caller, recog,
                   nextJob, restarts, faults, _lock, stt>>

\* tasks.py:215-217, 231-238  the download raises or returns no file
YtDownloadRaises(w) ==
    /\ worker[w].pc = "yt_download"
    /\ Raises(w, "Download YouTube failed: download")

\* tasks.py:219  save_job_state(job)
YtSaveFile(w) ==
    /\ worker[w].pc = "yt_save_file"
    /\ Saves(w, "yt_upload")
YtSaveFileRaises(w) ==
    /\ worker[w].pc = "yt_save_file"
    /\ Raises(w, "Download YouTube failed: OSError")

\* tasks.py:221  job.gcs_uri = upload_to_gcs(job.file_path, gcs_bucket)
YtUpload(w) ==
    /\ worker[w].pc = "yt_upload"
    /\ job' = [job EXCEPT ![worker[w].job].gcs_uri = "uploaded"]
    /\ worker' = Step(w, "yt_save_uri")
    /\ UNCHANGED <<_manager, _started, q, jobs, snap, results, caller, recog,
                   nextJob, restarts, faults, _lock, stt, files>>

YtUploadRaises(w) ==
    /\ worker[w].pc = "yt_upload"
    /\ Raises(w, "Download YouTube failed: upload")

\* tasks.py:222  save_job_state(job)
YtSaveUri(w) ==
    /\ worker[w].pc = "yt_save_uri"
    /\ Saves(w, "upload")
YtSaveUriRaises(w) ==
    /\ worker[w].pc = "yt_save_uri"
    /\ Raises(w, "Download YouTube failed: OSError")

\* No file is ever uploaded before recognition.
NeverUpload(jb) == FALSE

\* tasks.py:250  if job.file_path and not job.gcs_uri:
NeedsUpload(jb) == ~Falsy(jb.file_path) /\ Falsy(jb.gcs_uri)

\* The flag is taken as the caller gave it.
enable_word_time_offsets_as_given(params) ==
    params.enable_word_time_offsets = "True"

\* tasks.py:241, 245-247  bool(params.get("enable_word_time_offsets", False)),
\* and True with a speaker count
enable_word_time_offsets(params) ==
    IF params.diarization_speaker_count # 0 THEN TRUE
    ELSE params.enable_word_time_offsets = "True"

\* tasks.py:240-251  the locals are read from job.params; a local file and
\* no remote URI: upload it
Upload(w) ==
    /\ worker[w].pc = "upload"
    /\ IF NeedsUpload(job[worker[w].job])
       THEN /\ job' = [job EXCEPT ![worker[w].job].gcs_uri = "uploaded"]
            /\ worker' =
                  [worker EXCEPT ![w].pc = "save_uri",
                      ![w].enable_word_time_offsets =
                         enable_word_time_offsets(job[worker[w].job].params)]
       ELSE /\ worker' =
                  [worker EXCEPT ![w].pc = "recognize",
                      ![w].enable_word_time_offsets =
                         enable_word_time_offsets(job[worker[w].job].params)]
            /\ UNCHANGED job
    /\ UNCHANGED <<_manager, _started, q, jobs, snap, results, caller, recog,
                   nextJob, restarts, faults, _lock, stt, files>>

\* tasks.py:251  upload_to_gcs raises
UploadRaises(w) ==
    /\ worker[w].pc = "upload"
    /\ NeedsUpload(job[worker[w].job])
    /\ Raises(w, "upload")

\* tasks.py:252  save_job_state(job)
SaveUri(w) ==
    /\ worker[w].pc = "save_uri"
    /\ Saves(w, "recognize")
SaveUriRaises(w) ==
    /\ worker[w].pc = "save_uri"
    /\ Raises(w, "OSError")

\* The recognition call is always given the local path.
ReferencePath(jb) == "file_path"

\* tasks.py:254-264  what the recognition call is given: job.gcs_uri when
\* there is one, job.file_path otherwise
Reference(jb) == IF ~Falsy(jb.gcs_uri) THEN "gcs_uri" ELSE "file_path"

\* What the recognition call of tasks.py:254-273 can return.  With a remote
\* URI, stt_google_from_gcs returns a dict whose transcript has text or is
\* empty (google_stt.py:313-320).  With no URI the job has no file that was
\* uploaded, and stt_google_from_file returns None for a path that is no file
\* (google_stt.py:154-155).
Answers(jb) ==
    IF Reference(jb) = "gcs_uri" THEN {"text", "empty"} ELSE {"null"}

\* google_stt.py:154  os.path.isfile(file_path) raises TypeError for None
NoPath(jb) == Falsy(jb.gcs_uri) /\ jb.file_path = None

\* A check that leaves out the transcript: only a missing result counts as
\* empty.
EmptyResultNoResultOnly(result) == result = "null"

\* tasks.py:275  if not result or not result.get("transcript")
EmptyResult(result) == result \in {"null", "empty"}

\* tasks.py:277
EmptyResultMsg == "Empty result from Google STT"

\* tasks.py:254-278  the recognition call returns, and the empty-result
\* check; without a URI and without a path the call raises
Recognize(w) ==
    /\ worker[w].pc = "recognize"
    /\ IF NoPath(job[worker[w].job])
       THEN /\ recog' = [recog EXCEPT ![worker[w].job] = "raised"]
            /\ worker' = Raise(w, "TypeError")
       ELSE \E r \in Answers(job[worker[w].job]) :
               /\ recog' = [recog EXCEPT ![worker[w].job] = r]
               /\ worker' =
                     IF EmptyResult(r)
                     THEN Raise(w, EmptyResultMsg)
                     ELSE [worker EXCEPT ![w].pc = "write_open",
                                         ![w].result = r]
    /\ UNCHANGED <<_manager, _started, q, jobs, job, snap, results, caller,
                   nextJob, restarts, faults, _lock, stt, files>>

\* tasks.py:255-273  the recognition call raises (a provider error, the
\* timeout of the long-running operation)
RecognizeRaises(w) ==
    /\ worker[w].pc = "recognize"
    /\ Fault
    /\ recog' = [recog EXCEPT ![worker[w].job] = "raised"]
    /\ worker' = Raise(w, "recognition")
    /\ UNCHANGED <<_manager, _started, q, jobs, job, snap, results, caller,
                   nextJob, restarts, _lock, stt, files>>

\* tasks.py:254-273, google_stt.py:154  the recognition call is made with
\* the locals of _run: stt_google_from_gcs with job.gcs_uri when there is one,
\* stt_google_from_file with job.file_path otherwise, which raises in
\* os.path.isfile when the path is None; language_code is the default of
\* tasks.py:240
RecognizeCall(w) ==
    /\ worker[w].pc = "recognize"
    /\ LET jb == job[worker[w].job] IN
       IF NoPath(jb)
       THEN /\ recog' = [recog EXCEPT ![worker[w].job] = "raised"]
            /\ worker' = Raise(w, "TypeError")
            /\ UNCHANGED stt
       ELSE /\ stt' =
                  [NoStt EXCEPT
                      !.pc = IF Reference(jb) = "gcs_uri" THEN "from_gcs"
                             ELSE "isfile",
                      !.fn = IF Reference(jb) = "gcs_uri" THEN "gcs"
                             ELSE "file",
                      !.isfile = (Reference(jb) = "file_path"
                                     /\ jb.file_path \in {"upload", "download"}),
                      !.language_code = "pl-PL", !.lang = "pl-PL",
                      !.N = jb.params.diarization_speaker_count,
                      !.enable_word_time_offsets =
                         worker[w].enable_word_time_offsets]
            /\ worker' = Step(w, "recognizing")
            /\ UNCHANGED recog
    /\ UNCHANGED <<_manager, _started, q, jobs, job, snap, results, caller,
                   nextJob, restarts, faults, _lock, files>>

\* tasks.py:254-278  the recognition call returns or raises, and the
\* empty-result check
RecognizeReturn(w) ==
    /\ worker[w].pc = "recognizing"
    /\ stt.pc = "ret"
    /\ stt' = NoStt
    /\ IF stt.exc # None
       THEN /\ recog' = [recog EXCEPT ![worker[w].job] = "raised"]
            /\ worker' = Raise(w, stt.exc)
       ELSE LET r == IF stt.ret = NoResult THEN "null"
                     ELSE stt.ret.transcript
            IN /\ recog' = [recog EXCEPT ![worker[w].job] = r]
               /\ worker' =
                     IF EmptyResult(r)
                     THEN Raise(w, EmptyResultMsg)
                     ELSE [worker EXCEPT ![w].pc = "write_open",
                                         ![w].result = r]
    /\ UNCHANGED <<_manager, _started, q, jobs, job, snap, results, caller,
                   nextJob, restarts, faults, _lock, files>>

\* tasks.py:282-295  the result document: the params of the run and the
\* result of the recognition
payload(w) ==
    [params |->
        [diarization_speaker_count |->
            job[worker[w].job].params.diarization_speaker_count,
         enable_word_time_offsets |-> worker[w].enable_word_time_offsets],
     result |-> worker[w].result]

\* tasks.py:296  open(out_path, "w") creates or truncates the result file
WriteOpen(w) ==
    /\ worker[w].pc = "write_open"
    /\ results' = [results EXCEPT ![worker[w].job] = "partial"]
    /\ worker' = Step(w, "write_dump")
    /\ UNCHANGED <<_manager, _started, q, jobs, job, snap, caller, recog,
                   nextJob, restarts, faults, _lock, stt, files>>

WriteOpenRaises(w) ==
    /\ worker[w].pc = "write_open"
    /\ Raises(w, "OSError")

\* The worker goes on with the file as open left it, nothing written.
WriteDumpNothing(w) ==
    /\ worker[w].pc = "write_dump"
    /\ worker' = Step(w, "set_result_path")
    /\ UNCHANGED <<_manager, _started, q, jobs, job, snap, results, caller,
                   recog, nextJob, restarts, faults, _lock, stt, files>>

\* tasks.py:297  json.dump(payload, handle) and the close of the file
WriteDump(w) ==
    /\ worker[w].pc = "write_dump"
    /\ results' = [results EXCEPT ![worker[w].job] = payload(w).result]
    /\ worker' = Step(w, "set_result_path")
    /\ UNCHANGED <<_manager, _started, q, jobs, job, snap, caller, recog,
                   nextJob, restarts, faults, _lock, stt, files>>

\* tasks.py:297  the write raises: the file stays as far as it was written
WriteDumpRaises(w) ==
    /\ worker[w].pc = "write_dump"
    /\ Raises(w, "OSError")

\* tasks.py:299  job.result_path = out_path
SetResultPath(w) ==
    /\ worker[w].pc = "set_result_path"
    /\ job' = [job EXCEPT ![worker[w].job].result_path = worker[w].job]
    /\ worker' = Step(w, "set_done")
    /\ UNCHANGED <<_manager, _started, q, jobs, snap, results, caller, recog,
                   nextJob, restarts, faults, _lock, stt, files>>

\* tasks.py:300  job.status = "done"
SetDone(w) ==
    /\ worker[w].pc = "set_done"
    /\ job' = [job EXCEPT ![worker[w].job].status = "done"]
    /\ worker' = Step(w, "save_done")
    /\ UNCHANGED <<_manager, _started, q, jobs, snap, results, caller, recog,
                   nextJob, restarts, faults, _lock, stt, files>>

\* The worker is back at q.get() (tasks.py:309-310, 197-198).
NextIteration(w) == [worker EXCEPT ![w] = [NoWorker EXCEPT !.pc = "idle"]]

\* tasks.py:301  save_job_state(job)
SaveDone(w) ==
    /\ worker[w].pc = "save_done"
    /\ save_job_state(worker[w].job)
    /\ worker' = NextIteration(w)
    /\ UNCHANGED <<_manager, _started, q, jobs, job, results, caller, recog,
                   nextJob, restarts, faults, _lock, stt, files>>

\* tasks.py:301, 304  save_job_state(job) raises: the handler runs for a job
\* whose status is already done
SaveDoneRaises(w) ==
    /\ worker[w].pc = "save_done"
    /\ Raises(w, "OSError")

\* tasks.py:305  job.status = "error"
ExceptStatus(w) ==
    /\ worker[w].pc = "except_status"
    /\ job' = [job EXCEPT ![worker[w].job].status = "error"]
    /\ worker' = Step(w, "except_error")
    /\ UNCHANGED <<_manager, _started, q, jobs, snap, results, caller, recog,
                   nextJob, restarts, faults, _lock, stt, files>>

\* tasks.py:306  job.error = str(exc)
ExceptError(w) ==
    /\ worker[w].pc = "except_error"
    /\ job' = [job EXCEPT ![worker[w].job].error = worker[w].exc]
    /\ worker' = Step(w, "except_save")
    /\ UNCHANGED <<_manager, _started, q, jobs, snap, results, caller, recog,
                   nextJob, restarts, faults, _lock, stt, files>>

\* tasks.py:307  save_job_state(job)
ExceptSave(w) ==
    /\ worker[w].pc = "except_save"
    /\ save_job_state(worker[w].job)
    /\ worker' = NextIteration(w)
    /\ UNCHANGED <<_manager, _started, q, jobs, job, results, caller, recog,
                   nextJob, restarts, faults, _lock, stt, files>>

\* An exception leaves _run: the thread ends.
Dies(w) == [worker EXCEPT ![w] = [NoWorker EXCEPT !.pc = "dead"]]

\* tasks.py:307-310  save_job_state(job) raises inside the handler: nothing
\* catches it, the finally runs and the exception leaves the while loop
ExceptSaveRaises(w) ==
    /\ worker[w].pc = "except_save"
    /\ Fault
    /\ worker' = Dies(w)
    /\ UNCHANGED <<_manager, _started, q, jobs, job, snap, results, caller,
                   recog, nextJob, restarts, _lock, stt, files>>

-----------------------------------------------------------------------------
\* The status query: routes.py job_status

Resp(tier, status, locator, error) ==
    [tier |-> tier, status |-> status, locator |-> locator, error |-> error]

NotFound == Resp(0, "Job not found", 0, None)

\* The query returns resp to its caller.
Answer(c, resp) == [caller EXCEPT ![c].pc = "st_ret", ![c].resp = resp]

\* A lookup that never finds the job in the table.
getNothing(m, id) == 0

\* tasks.py:191-193  JobManager.get: self.jobs.get(job_id), the job or None
\* (0)
get(m, id) == IF id \in jobs[m] THEN id ELSE 0

\* tasks.py:192  JobManager.get: with self._lock:
StAcquire(c) ==
    /\ caller[c].pc = "have_mgr"
    /\ caller[c].op = "status"
    /\ acquire(caller[c].mgr, c)
    /\ caller' = Goto(c, "st_get")
    /\ UNCHANGED <<_manager, _started, q, jobs, job, snap, results, worker,
                   recog, nextJob, restarts, faults, stt, files>>

\* routes.py:174-176, tasks.py:193  job = mng.get(job_id); if job:
StGet(c) ==
    /\ caller[c].pc = "st_get"
    /\ release(caller[c].mgr)
    /\ caller' =
          IF get(caller[c].mgr, caller[c].id) # 0
          THEN [caller EXCEPT ![c].pc = "st_done", ![c].t1 = "hit"]
          ELSE [caller EXCEPT ![c].pc = "st_load", ![c].t1 = "miss"]
    /\ UNCHANGED <<_manager, _started, q, jobs, job, snap, results, worker,
                   recog, nextJob, restarts, faults, stt, files>>

\* routes.py:177-185  done, with a result path that is a file
StDone(c) ==
    /\ caller[c].pc = "st_done"
    /\ LET jb == job[caller[c].id] IN
       caller' =
          IF jb.status = "done" /\ jb.result_path # 0 /\ IsFile(jb.result_path)
          THEN Answer(c, Resp(1, "done", jb.result_path, None))
          ELSE Goto(c, "st_error")
    /\ UNCHANGED <<_manager, _started, q, jobs, job, snap, results, worker,
                   recog, nextJob, restarts, faults, _lock, stt, files>>

\* routes.py:186  if job.status == "error":
StError(c) ==
    /\ caller[c].pc = "st_error"
    /\ caller' = Goto(c, IF job[caller[c].id].status = "error"
                         THEN "st_message" ELSE "st_status")
    /\ UNCHANGED <<_manager, _started, q, jobs, job, snap, results, worker,
                   recog, nextJob, restarts, faults, _lock, stt, files>>

\* routes.py:187  "error": job.error or "unknown"
StMessage(c) ==
    /\ caller[c].pc = "st_message"
    /\ LET jb == job[caller[c].id] IN
       caller' = Answer(c, Resp(1, "error", 0,
                     IF jb.error = None THEN "unknown" ELSE jb.error))
    /\ UNCHANGED <<_manager, _started, q, jobs, job, snap, results, worker,
                   recog, nextJob, restarts, faults, _lock, stt, files>>

\* routes.py:188  "status": job.status
StStatus(c) ==
    /\ caller[c].pc = "st_status"
    /\ caller' = Answer(c, Resp(1, job[caller[c].id].status, 0, None))
    /\ UNCHANGED <<_manager, _started, q, jobs, job, snap, results, worker,
                   recog, nextJob, restarts, faults, _lock, stt, files>>

\* No snapshot is ever found.
load_nothing(id) == NoSnap

\* tasks.py:142-150  load_job_state: the document, or None when there is no
\* file
load_job_state(id) == json_load(snap[id])

\* routes.py:192-207  the answer taken from a snapshot document
SnapshotAnswer(state) ==
    IF state.status = "done"
    THEN IF state.result_path # 0 /\ IsFile(state.result_path)
         THEN Resp(2, "done", state.result_path, None)
         ELSE Resp(2, "done", 0, None)
    ELSE IF state.status = "error"
         THEN Resp(2, "error", 0, state.error)
         ELSE Resp(2, state.status, 0, None)

\* routes.py:190-207  state = load_job_state(job_id); if state:
StLoad(c) ==
    /\ caller[c].pc = "st_load"
    /\ LET state == load_job_state(caller[c].id) IN
       caller' =
          IF state.status # "absent"
          THEN [Answer(c, SnapshotAnswer(state)) EXCEPT ![c].t2 = "hit"]
          ELSE [caller EXCEPT ![c].pc = "st_legacy", ![c].t2 = "miss"]
    /\ UNCHANGED <<_manager, _started, q, jobs, job, snap, results, worker,
                   recog, nextJob, restarts, faults, _lock, stt, files>>

\* routes.py:209-221  results/transcription_<job_id>.json is a file, or 404
StLegacy(c) ==
    /\ caller[c].pc = "st_legacy"
    /\ caller' =
          IF IsFile(caller[c].id)
          THEN [Answer(c, Resp(3, "done", caller[c].id, None))
                   EXCEPT ![c].t3 = "hit"]
          ELSE [Answer(c, NotFound) EXCEPT ![c].t3 = "miss"]
    /\ UNCHANGED <<_manager, _started, q, jobs, job, snap, results, worker,
                   recog, nextJob, restarts, faults, _lock, stt, files>>

\* The handler returns; its locals are gone.
StRet(c) ==
    /\ caller[c].pc = "st_ret"
    /\ caller' = [caller EXCEPT ![c] = IdleCaller]
    /\ UNCHANGED <<_manager, _started, q, jobs, job, snap, results, worker,
                   recog, nextJob, restarts, faults, _lock, stt, files>>

-----------------------------------------------------------------------------
\* The process ends and starts again: every thread and everything in memory
\* is gone, the files under jobs/ and results/ stay.
Restart ==
    /\ restarts < MaxRestarts
    /\ restarts' = restarts + 1
    /\ _manager' = 0
    /\ _started' = [m \in Managers |-> FALSE]
    /\ q' = [m \in Managers |-> <<>>]
    /\ jobs' = [m \in Managers |-> {}]
    /\ _lock' = [m \in Managers |-> 0]
    /\ job' = [j \in JobIds |-> NoJob]
    /\ worker' = [w \in Workers |-> NoWorker]
    /\ caller' = [c \in Callers |-> IdleCaller]
    /\ UNCHANGED <<snap, results, recog, nextJob, faults, stt, files>>

-----------------------------------------------------------------------------
\* save_job_state and load_job_state step by step, called by threads at the
\* same time.  The steps of _atomic_write_json before os.replace work on the
\* thread's own temp file, which mkstemp names as no other file is named; the
\* file is known from the position of the thread and from its payload.

\* The Job objects save_job_state can be called with for job id.
JobStates(id) ==
    { NewJob(src) : src \in {s \in Sources : s.file_path = "upload"} }
    \cup { [NewJob(src) EXCEPT !.status = "processing", !.gcs_uri = "uploaded"] :
              src \in {s \in Sources : s.file_path = "upload"} }
    \cup { [NewJob(src) EXCEPT !.status = "done", !.result_path = id] :
              src \in {s \in Sources : s.gcs_uri = "given"} }
    \cup { [NewJob(src) EXCEPT !.status = "error", !.error = EmptyResultMsg] :
              src \in {s \in Sources : s.gcs_uri = "given"} }

\* tasks.py:138-139  save_job_state(job): the payload is built
CallSave(c) ==
    /\ caller[c].pc = "idle"
    /\ \E id \in JobIds : \E jb \in JobStates(id) :
          caller' = [caller EXCEPT ![c].pc = "aw_mkstemp", ![c].op = "save",
                                   ![c].id = id, ![c].state = _job_to_state(jb)]
    /\ UNCHANGED <<_manager, _started, q, jobs, job, snap, results, worker,
                   recog, nextJob, restarts, faults, _lock, stt, files>>

\* The file is opened for writing at the snapshot's own path.
open_in_place(c) == snap' = [snap EXCEPT ![caller[c].id] = Truncated]

\* tasks.py:71  tempfile.mkstemp(prefix="job_", suffix=".json", dir=JOBS_DIR):
\* a new, empty file; the snapshot files stay as they are
mkstemp(c) == UNCHANGED snap

\* tasks.py:73-74  json.dump(payload, handle) into the temp file, and its close
json_dump(c) == UNCHANGED snap

\* tasks.py:75  os.replace(tmp, path): the snapshot file is the temp file
os_replace(c) == snap' = [snap EXCEPT ![caller[c].id] = caller[c].state]

AwMkstemp(c) ==
    /\ caller[c].pc = "aw_mkstemp"
    /\ mkstemp(c)
    /\ caller' = Goto(c, "aw_dump")
    /\ UNCHANGED <<_manager, _started, q, jobs, job, results, worker,
                   recog, nextJob, restarts, faults, _lock, stt, files>>

AwDump(c) ==
    /\ caller[c].pc = "aw_dump"
    /\ json_dump(c)
    /\ caller' = Goto(c, "aw_replace")
    /\ UNCHANGED <<_manager, _started, q, jobs, job, results, worker,
                   recog, nextJob, restarts, faults, _lock, stt, files>>

\* tasks.py:75-81  os.replace, and the finally finds no temp file
AwReplace(c) ==
    /\ caller[c].pc = "aw_replace"
    /\ os_replace(c)
    /\ caller' = [caller EXCEPT ![c] = IdleCaller]
    /\ UNCHANGED <<_manager, _started, q, jobs, job, results, worker,
                   recog, nextJob, restarts, faults, _lock, stt, files>>

\* tasks.py:71-81  a step of _atomic_write_json raises: the finally removes
\* the temp file, the snapshot file stays as it is
AwRaises(c) ==
    /\ caller[c].pc \in {"aw_mkstemp", "aw_dump", "aw_replace"}
    /\ Fault
    /\ caller' = [caller EXCEPT ![c] = IdleCaller]
    /\ UNCHANGED <<_manager, _started, q, jobs, job, snap, results, worker,
                   recog, nextJob, restarts, _lock, stt, files>>

\* tasks.py:142-143  load_job_state(job_id)
CallLoad(c) ==
    /\ caller[c].pc = "idle"
    /\ \E id \in JobIds :
          caller' = [caller EXCEPT ![c].pc = "ld_isfile", ![c].op = "load",
                                   ![c].id = id]
    /\ UNCHANGED <<_manager, _started, q, jobs, job, snap, results, worker,
                   recog, nextJob, restarts, faults, _lock, stt, files>>

\* tasks.py:144-145  if not os.path.isfile(path): return None
LdIsFile(c) ==
    /\ caller[c].pc = "ld_isfile"
    /\ caller' =
          IF snap[caller[c].id].status = "absent"
          THEN [caller EXCEPT ![c].pc = "ld_ret", ![c].t2 = "miss"]
          ELSE [caller EXCEPT ![c].pc = "ld_open", ![c].t2 = "hit"]
    /\ UNCHANGED <<_manager, _started, q, jobs, job, snap, results, worker,
                   recog, nextJob, restarts, faults, _lock, stt, files>>

\* tasks.py:146-150  open(path) and json.load(handle): the file as it is when
\* it is opened
LdRead(c) ==
    /\ caller[c].pc = "ld_open"
    /\ caller' = [caller EXCEPT ![c].pc = "ld_ret",
                                ![c].state = json_load(snap[caller[c].id])]
    /\ UNCHANGED <<_manager, _started, q, jobs, job, snap, results, worker,
                   recog, nextJob, restarts, faults, _lock, stt, files>>

\* load_job_state returns; the locals of the thread are gone.
LdRet(c) ==
    /\ caller[c].pc = "ld_ret"
    /\ caller' = [caller EXCEPT ![c] = IdleCaller]
    /\ UNCHANGED <<_manager, _started, q, jobs, job, snap, results, worker,
                   recog, nextJob, restarts, faults, _lock, stt, files>>

-----------------------------------------------------------------------------
\* google_stt.py: stt_google_from_file and stt_google_from_gcs, one call.

\* google_stt.py:220  the default of STT_INLINE_MAX_BYTES
STT_INLINE_MAX_BYTES == 9000000

\* The sizes of the file around the inline ceiling.
Sizes ==
    {STT_INLINE_MAX_BYTES - 1, STT_INLINE_MAX_BYTES, STT_INLINE_MAX_BYTES + 1}

\* The language codes of a call, and the entries of STT_LANG_FALLBACKS split
\* at the commas and stripped, which can be empty.
Langs == {"pl-PL", "en-US"}
FallbackEntries == Langs \cup {""}
FallbackLists == UNION {[1..k -> FallbackEntries] : k \in 0..MaxFallbacks}

\* The primary language and every entry that is not empty.
try_langs_with_repeats(language_code, fallbacks) ==
    <<language_code>> \o SelectSeq(fallbacks, LAMBDA lang : lang # "")

\* google_stt.py:174  [language_code] + the entries that are not empty and
\* are not language_code
try_langs(language_code, fallbacks) ==
    <<language_code>> \o
       SelectSeq(fallbacks, LAMBDA lang : lang # "" /\ lang # language_code)

\* A diarization config whose minimum is the speaker count itself.
diarization_config_min_N(N, env_diar) ==
    IF N # 0 THEN [enable |-> TRUE, min |-> N, max |-> N]
    ELSE IF env_diar THEN [enable |-> TRUE, min |-> 0, max |-> 0]
    ELSE NoDiar

\* google_stt.py:162-171, 292-299  diarization_config; N = 0 stands for a
\* count that is None or 0, env_diar for STT_DIARIZATION_DEFAULT, which
\* stt_google_from_gcs does not read; min and max 0 stand for fields not set
diarization_config(N, env_diar) ==
    IF N # 0
    THEN [enable |-> TRUE, min |-> IF N < 2 THEN 2 ELSE N, max |-> N]
    ELSE IF env_diar THEN [enable |-> TRUE, min |-> 0, max |-> 0]
    ELSE NoDiar

\* No result ever counts as a transcript.
NeverTranscript(result) == FALSE

\* google_stt.py:255  if result.get("transcript")
HasTranscript(result) == result.transcript = "text"

\* Every exception counts as the duration limit.
any_err(exc) == TRUE

\* google_stt.py:30-31  _inline_duration_limit_err(exc)
_inline_duration_limit_err(exc) == exc = "inline audio exceeds duration limit"

\* The model argument: none, or a model the caller names.
Models == {None, "latest_long"}

\* google_stt.py:144-153  stt_google_from_file(file_path, language_code,
\* diarization_speaker_count) is called, with its files and its environment
CallFromFile ==
    /\ stt.pc = "none"
    /\ \E isfile \in BOOLEAN, size \in Sizes, language_code \in Langs,
          fallbacks \in FallbackLists, N \in 0..MaxSpeakers,
          env_diar \in BOOLEAN, bucket \in BOOLEAN,
          word_offsets \in BOOLEAN, model \in Models,
          use_enhanced \in {None, "False", "True"} :
          stt' = [NoStt EXCEPT !.pc = "isfile", !.fn = "file",
                               !.enable_word_time_offsets = word_offsets,
                               !.model = model, !.use_enhanced = use_enhanced,
                               !.isfile = isfile, !.size = size,
                               !.language_code = language_code,
                               !.fallbacks = fallbacks, !.N = N,
                               !.env_diar = env_diar, !.bucket = bucket]
    /\ UNCHANGED <<_manager, _started, q, jobs, job, snap, results, worker,
                   caller, recog, nextJob, restarts, faults, _lock, files>>

\* google_stt.py:154-155  if not os.path.isfile(file_path): return None
SttIsFile ==
    /\ stt.pc = "isfile"
    /\ stt' = IF stt.isfile THEN [stt EXCEPT !.pc = "gate"]
              ELSE [stt EXCEPT !.pc = "ret", !.ret = NoResult]
    /\ UNCHANGED <<_manager, _started, q, jobs, job, snap, results, worker,
                   caller, recog, nextJob, restarts, faults, _lock, files>>

\* google_stt.py:219-226  over the ceiling: return _via_gcs(file_path,
\* language_code)
SttGate ==
    /\ stt.pc = "gate"
    /\ stt' = IF stt.size > STT_INLINE_MAX_BYTES
              THEN [stt EXCEPT !.pc = "via_gcs", !.lang = stt.language_code,
                               !.src = "file_path", !.force = FALSE]
              ELSE [stt EXCEPT !.pc = "convert"]
    /\ UNCHANGED <<_manager, _started, q, jobs, job, snap, results, worker,
                   caller, recog, nextJob, restarts, faults, _lock, files>>

\* google_stt.py:44-77  _maybe_convert_to_wav_mono16k(src_path): the WAV
\* that ffmpeg wrote; or None with no file (no ffmpeg, or the file of mkstemp
\* removed after a failure); or None with that file left, its removal having
\* failed (google_stt.py:72-76)
_maybe_convert_to_wav_mono16k ==
    {[tmp_wav |-> "wav", wav |-> "present"],
     [tmp_wav |-> None, wav |-> "absent"],
     [tmp_wav |-> None, wav |-> "left"]}

\* google_stt.py:228-233  tmp_wav = _maybe_convert_to_wav_mono16k(file_path),
\* which is a file or None; best_result = None
SttConvert ==
    /\ stt.pc = "convert"
    /\ \E out \in _maybe_convert_to_wav_mono16k :
          /\ stt' = [stt EXCEPT !.pc = "loop", !.tmp_wav = out.tmp_wav,
                                !.i = 1]
          /\ files' = [files EXCEPT !.wav = out.wav]
    /\ UNCHANGED <<_manager, _started, q, jobs, job, snap, results, worker,
                   caller, recog, nextJob, restarts, faults, _lock>>

\* google_stt.py:269-274  the finally of stt_google_from_file, run when the
\* function is left after the conversion: os.remove(tmp_wav) for a tmp_wav
\* that exists; an OSError of the removal is passed over and the file is left
finally(removed) ==
    files' = IF stt'.pc = "ret" /\ stt.tmp_wav = "wav"
             THEN [files EXCEPT !.wav = IF removed THEN "absent" ELSE "left"]
             ELSE files

\* google_stt.py:229  use_path = tmp_wav or file_path
use_path == IF stt.tmp_wav = "wav" THEN "tmp_wav" ELSE "file_path"

\* The language of the iteration of the loop the call is in.
LoopLang == try_langs(stt.language_code, stt.fallbacks)[stt.i]

\* google_stt.py:15-27
VIDEO_LANGS ==
    {"en-US", "en-GB", "en-AU", "fr-FR", "de-DE", "es-ES", "es-US", "it-IT",
     "pt-BR", "ja-JP", "ko-KR"}

\* google_stt.py:176-184, 307  the model of the configs: in
\* stt_google_from_file "video" with a diarization_config, no model given
\* and a language_code of VIDEO_LANGS; otherwise, and in stt_google_from_gcs,
\* model or ""
effective_model(fn, model, diar, language_code) ==
    IF fn = "file" /\ diar.enable /\ model = None
    THEN IF language_code \in VIDEO_LANGS THEN "video" ELSE ""
    ELSE IF model = None THEN "" ELSE model

\* google_stt.py:177-182, 308  the use_enhanced of the configs:
\* bool(use_enhanced), False for None, and True with the model "video" that
\* stt_google_from_file chose
effective_use_enhanced(fn, model, use_enhanced, diar, language_code) ==
    IF fn = "file" /\ diar.enable /\ model = None
          /\ language_code \in VIDEO_LANGS
    THEN TRUE
    ELSE use_enhanced = "True"

\* The diarization_config of the call under way.
SttDiar ==
    diarization_config(stt.N, IF stt.fn = "file" THEN stt.env_diar ELSE FALSE)

\* google_stt.py:80-115  _extract_transcript(response): the transcript of
\* the response, and no meta yet
_extract_transcript(response) == [NoResult EXCEPT !.transcript = response]

\* A meta whose language is the language_code of the call, whatever language
\* the attempt was made in.
_attach_meta_primary_lang(result, meta, diar, model, use_enhanced) ==
    IF HasTranscript(result)
    THEN [result EXCEPT
             !.meta = [via |-> meta.via, lang |-> stt.language_code,
                       diarization_enabled |-> diar.enable,
                       diarization_min |-> diar.min,
                       diarization_max |-> diar.max,
                       model |-> model, use_enhanced |-> use_enhanced]]
    ELSE result

\* google_stt.py:118-141  _attach_meta(result, meta, diarization_config,
\* model, use_enhanced): a result with a transcript gets the meta of the
\* caller and the diarization bounds, model and use_enhanced; another result
\* is returned as it is
_attach_meta(result, meta, diar, model, use_enhanced) ==
    IF HasTranscript(result)
    THEN [result EXCEPT
             !.meta = [via |-> meta.via, lang |-> meta.lang,
                       diarization_enabled |-> diar.enable,
                       diarization_min |-> diar.min,
                       diarization_max |-> diar.max,
                       model |-> model, use_enhanced |-> use_enhanced]]
    ELSE result

\* google_stt.py:211-217, 254, 314-320  the result of a call that returned:
\* _attach_meta of the transcript with the tag of the path, the language of
\* the call and the diarization_config, model and use_enhanced of its config
Result(via, lang, response) ==
    _attach_meta(_extract_transcript(response), [via |-> via, lang |-> lang],
                 SttDiar,
                 effective_model(stt.fn, stt.model, SttDiar,
                                 stt.language_code),
                 effective_use_enhanced(stt.fn, stt.model, stt.use_enhanced,
                                        SttDiar, stt.language_code))

\* The record of a call of the provider: its config (google_stt.py:191-207,
\* 236-244, 301-309), its audio and what came back.
ProviderCall(lang, force, audio, resp) ==
    [lang |-> lang, force |-> force, audio |-> audio, resp |-> resp,
     enable_word_time_offsets |-> stt.enable_word_time_offsets,
     model |-> effective_model(stt.fn, stt.model, SttDiar, stt.language_code),
     use_enhanced |->
        effective_use_enhanced(stt.fn, stt.model, stt.use_enhanced, SttDiar,
                               stt.language_code),
     diar |-> diarization_config(stt.N,
                                 IF stt.fn = "file" THEN stt.env_diar
                                 ELSE FALSE)]

\* google_stt.py:234-257  client.recognize returns for the next language;
\* a transcript with text ends the loop
SttSync ==
    /\ stt.pc = "loop"
    /\ stt.i <= Len(try_langs(stt.language_code, stt.fallbacks))
    /\ \E transcript \in {"text", "empty"} :
          LET result == Result("sync", LoopLang, transcript)
          IN stt' =
                IF HasTranscript(result)
                THEN [stt EXCEPT !.pc = "after_loop", !.best = result,
                         !.sync = Append(@, ProviderCall(LoopLang, FALSE,
                                                         use_path,
                                                         transcript))]
                ELSE [stt EXCEPT !.i = @ + 1,
                         !.sync = Append(@, ProviderCall(LoopLang, FALSE,
                                                         use_path,
                                                         transcript))]
    /\ UNCHANGED <<_manager, _started, q, jobs, job, snap, results, worker,
                   caller, recog, nextJob, restarts, faults, _lock, files>>

\* google_stt.py:246, 258-262  client.recognize raises: for the duration
\* limit, return _via_gcs(use_path, lang, force_linear16_16k=bool(tmp_wav));
\* any other exception leaves the function
SttSyncRaises ==
    /\ stt.pc = "loop"
    /\ stt.i <= Len(try_langs(stt.language_code, stt.fallbacks))
    /\ \E exc \in {"inline audio exceeds duration limit", "other"} :
          stt' =
             IF _inline_duration_limit_err(exc)
             THEN [stt EXCEPT !.pc = "via_gcs", !.lang = LoopLang,
                      !.src = use_path, !.force = (stt.tmp_wav # None),
                      !.sync = Append(@, ProviderCall(LoopLang, FALSE,
                                                      use_path, exc))]
             ELSE [stt EXCEPT !.pc = "ret", !.exc = exc,
                      !.sync = Append(@, ProviderCall(LoopLang, FALSE,
                                                      use_path, exc))]
    /\ \E removed \in BOOLEAN : finally(removed)
    /\ UNCHANGED <<_manager, _started, q, jobs, job, snap, results, worker,
                   caller, recog, nextJob, restarts, faults, _lock>>

\* google_stt.py:234  the list of languages is at its end
SttExhausted ==
    /\ stt.pc = "loop"
    /\ stt.i > Len(try_langs(stt.language_code, stt.fallbacks))
    /\ stt' = [stt EXCEPT !.pc = "after_loop"]
    /\ UNCHANGED <<_manager, _started, q, jobs, job, snap, results, worker,
                   caller, recog, nextJob, restarts, faults, _lock, files>>

\* google_stt.py:264-267  if best_result: return best_result; otherwise
\* return _via_gcs(file_path, language_code)
SttAfterLoop ==
    /\ stt.pc = "after_loop"
    /\ stt' = IF stt.best # NoResult
              THEN [stt EXCEPT !.pc = "ret", !.ret = stt.best]
              ELSE [stt EXCEPT !.pc = "via_gcs", !.lang = stt.language_code,
                               !.src = "file_path", !.force = FALSE]
    /\ \E removed \in BOOLEAN : finally(removed)
    /\ UNCHANGED <<_manager, _started, q, jobs, job, snap, results, worker,
                   caller, recog, nextJob, restarts, faults, _lock>>

\* google_stt.py:187-189  gcs_bucket = os.getenv("GCS_BUCKET");
\* if not gcs_bucket: return None
SttViaGcs ==
    /\ stt.pc = "via_gcs"
    /\ stt' = IF stt.bucket THEN [stt EXCEPT !.pc = "gcs_upload"]
              ELSE [stt EXCEPT !.pc = "ret", !.ret = NoResult]
    /\ \E removed \in BOOLEAN : finally(removed)
    /\ UNCHANGED <<_manager, _started, q, jobs, job, snap, results, worker,
                   caller, recog, nextJob, restarts, faults, _lock>>

\* google_stt.py:190  uri = upload_to_gcs(src_path, gcs_bucket)
SttUpload ==
    /\ stt.pc = "gcs_upload"
    /\ stt' = [stt EXCEPT !.pc = "gcs_recognize"]
    /\ UNCHANGED <<_manager, _started, q, jobs, job, snap, results, worker,
                   caller, recog, nextJob, restarts, faults, _lock, files>>

\* google_stt.py:190  upload_to_gcs raises
SttUploadRaises ==
    /\ stt.pc = "gcs_upload"
    /\ stt' = [stt EXCEPT !.pc = "ret", !.exc = "upload"]
    /\ \E removed \in BOOLEAN : finally(removed)
    /\ UNCHANGED <<_manager, _started, q, jobs, job, snap, results, worker,
                   caller, recog, nextJob, restarts, faults, _lock>>

\* google_stt.py:191-217  client.long_running_recognize with the language
\* _via_gcs was given, and the result of the operation
SttLongRunning ==
    /\ stt.pc = "gcs_recognize"
    /\ \E transcript \in {"text", "empty"} :
          stt' = [stt EXCEPT !.pc = "ret",
                     !.ret = Result("gcs", stt.lang, transcript),
                     !.gcs = Append(@, ProviderCall(stt.lang, stt.force,
                                                    stt.src, transcript))]
    /\ \E removed \in BOOLEAN : finally(removed)
    /\ UNCHANGED <<_manager, _started, q, jobs, job, snap, results, worker,
                   caller, recog, nextJob, restarts, faults, _lock>>

\* google_stt.py:209-210  the call or operation.result(timeout) raises
SttLongRunningRaises ==
    /\ stt.pc = "gcs_recognize"
    /\ stt' = [stt EXCEPT !.pc = "ret", !.exc = "other",
                  !.gcs = Append(@, ProviderCall(stt.lang, stt.force,
                                                 stt.src, "other"))]
    /\ \E removed \in BOOLEAN : finally(removed)
    /\ UNCHANGED <<_manager, _started, q, jobs, job, snap, results, worker,
                   caller, recog, nextJob, restarts, faults, _lock>>

\* google_stt.py:277-286  stt_google_from_gcs(gcs_uri, language_code,
\* diarization_speaker_count) is called
CallFromGcs ==
    /\ stt.pc = "none"
    /\ \E language_code \in Langs, N \in 0..MaxSpeakers,
          word_offsets \in BOOLEAN, model \in Models,
          use_enhanced \in {None, "False", "True"} :
          stt' = [NoStt EXCEPT !.pc = "from_gcs", !.fn = "gcs",
                               !.enable_word_time_offsets = word_offsets,
                               !.model = model, !.use_enhanced = use_enhanced,
                               !.language_code = language_code,
                               !.lang = language_code, !.N = N]
    /\ UNCHANGED <<_manager, _started, q, jobs, job, snap, results, worker,
                   caller, recog, nextJob, restarts, faults, _lock, files>>

\* google_stt.py:287-320  the one long-running call of stt_google_from_gcs
SttFromGcs ==
    /\ stt.pc = "from_gcs"
    /\ \E transcript \in {"text", "empty"} :
          stt' = [stt EXCEPT !.pc = "ret",
                     !.ret = Result("gcs", stt.language_code, transcript),
                     !.gcs = Append(@, ProviderCall(stt.language_code, FALSE,
                                                    "gcs_uri", transcript))]
    /\ UNCHANGED <<_manager, _started, q, jobs, job, snap, results, worker,
                   caller, recog, nextJob, restarts, faults, _lock, files>>

\* google_stt.py:310-312  the call or operation.result(timeout) raises
SttFromGcsRaises ==
    /\ stt.pc = "from_gcs"
    /\ stt' = [stt EXCEPT !.pc = "ret", !.exc = "other",
                  !.gcs = Append(@, ProviderCall(stt.language_code, FALSE,
                                                 "gcs_uri", "other"))]
    /\ UNCHANGED <<_manager, _started, q, jobs, job, snap, results, worker,
                   caller, recog, nextJob, restarts, faults, _lock, files>>

-----------------------------------------------------------------------------
\* Specifications

\* NumCallers threads that call save_job_state and load_job_state.
NextFiles ==
    \/ \E c \in Callers : CallSave(c) \/ AwMkstemp(c) \/ AwDump(c)
    \/ \E c \in Callers : AwReplace(c) \/ AwRaises(c)
    \/ \E c \in Callers : CallLoad(c) \/ LdIsFile(c) \/ LdRead(c) \/ LdRet(c)

SpecFiles == Init /\ [][NextFiles]_vars

\* The one caller of Spec and SpecQueue.
OneCaller == {c \in Callers : \A d \in Callers : c <= d}

\* The sources of the jobs of SpecRace: a URL that is no YouTube URL, which
\* fails at tasks.py:213 before any call to a provider.
RaceSources == {src \in Sources : src.youtube_url = "other"}

GetManager(c) ==
    \/ GmCheck(c) \/ GmNew(c) \/ GmLoad(c) \/ StartCheck(c) \/ StartSet(c)
    \/ GmRet(c)

Enqueue(c, limit, sources) ==
    \/ CallEnqueue(c, limit) \/ EnqAcquire(c) \/ EnqTable(c, sources)
    \/ EnqPut(c)
    \/ EnqState(c) \/ EnqWrite(c) \/ EnqWriteRaises(c) \/ EnqRet(c)

JobStatus(c) ==
    \/ CallStatus(c) \/ StAcquire(c) \/ StGet(c) \/ StDone(c) \/ StError(c)
    \/ StMessage(c) \/ StStatus(c) \/ StLoad(c) \/ StLegacy(c) \/ StRet(c)

\* The steps of _run every job goes through.
RunCommon(w) ==
    \/ Dequeue(w) \/ SaveProcessing(w) \/ SaveProcessingRaises(w)
    \/ Acquire(w) \/ ExceptStatus(w) \/ ExceptError(w) \/ ExceptSave(w)
    \/ ExceptSaveRaises(w)

\* The steps of _run after a source was accepted.
RunSource(w) ==
    \/ YtDownload(w) \/ YtDownloadRaises(w) \/ YtSaveFile(w)
    \/ YtSaveFileRaises(w) \/ YtUpload(w) \/ YtUploadRaises(w)
    \/ YtSaveUri(w) \/ YtSaveUriRaises(w) \/ Upload(w) \/ UploadRaises(w)
    \/ SaveUri(w) \/ SaveUriRaises(w) \/ Recognize(w) \/ RecognizeRaises(w)
    \/ WriteOpen(w) \/ WriteOpenRaises(w) \/ WriteDump(w)
    \/ WriteDumpRaises(w) \/ SetResultPath(w) \/ SetDone(w) \/ SaveDone(w)
    \/ SaveDoneRaises(w)

\* One request thread that enqueues MaxJobsSpec jobs and asks for the status
\* of jobs, the worker, and the restart of the process.
Next ==
    \/ \E c \in OneCaller : GetManager(c)
    \/ \E c \in OneCaller : Enqueue(c, MaxJobsSpec, Sources)
    \/ \E c \in OneCaller : JobStatus(c)
    \/ \E w \in Workers : RunCommon(w)
    \/ \E w \in Workers : RunSource(w)
    \/ Restart

Spec == Init /\ [][Next]_vars

\* One request thread that enqueues MaxJobs jobs, and the worker.
NextQueue ==
    \/ \E c \in OneCaller : GetManager(c)
    \/ \E c \in OneCaller : Enqueue(c, MaxJobs, Sources)
    \/ \E w \in Workers : RunCommon(w)
    \/ \E w \in Workers : RunSource(w)

SpecQueue == Init /\ [][NextQueue]_vars

\* SpecQueue with threads that keep running: a thread that can take a step
\* takes one, and a call that is outstanding returns or raises.
SpecQueueFair ==
    /\ SpecQueue
    /\ WF_vars(\E c \in OneCaller :
                  GetManager(c) \/ Enqueue(c, MaxJobs, Sources))
    /\ WF_vars(\E w \in Workers : RunCommon(w) \/ RunSource(w))

\* NumCallers request threads that enqueue MaxJobs jobs between them, and the
\* workers.
NextRace ==
    \/ \E c \in Callers : GetManager(c)
    \/ \E c \in Callers : Enqueue(c, MaxJobs, RaceSources)
    \/ \E w \in Workers : RunCommon(w)

SpecRace == Init /\ [][NextRace]_vars

\* The request threads of SpecLock: one enqueues, the others ask for the status
\* of jobs.
Readers == Callers \ OneCaller

\* The sources of the jobs of SpecLock: the ones the worker downloads or
\* uploads a file for.
LockSources ==
    {src \in Sources : src.file_path = "upload" \/ src.youtube_url = "youtube"}

\* A request thread that enqueues MaxJobsSpec jobs, request threads that ask
\* for the status of jobs at the same time, and the worker.
NextLock ==
    \/ \E c \in Callers : GetManager(c)
    \/ \E c \in OneCaller : Enqueue(c, MaxJobsSpec, LockSources)
    \/ \E c \in Readers : JobStatus(c)
    \/ \E w \in Workers : RunCommon(w)
    \/ \E w \in Workers : RunSource(w)

SpecLock == Init /\ [][NextLock]_vars

\* One request thread that enqueues MaxJobs jobs, each with a URL that is no
\* YouTube URL, and asks for the status of jobs, the worker, and the process
\* ending and starting again.
NextRestart ==
    \/ \E c \in OneCaller : GetManager(c)
    \/ \E c \in OneCaller : Enqueue(c, MaxJobs, RaceSources)
    \/ \E c \in OneCaller : JobStatus(c)
    \/ \E w \in Workers : RunCommon(w)
    \/ Restart

SpecRestart == Init /\ [][NextRestart]_vars

\* One call of stt_google_from_file or of stt_google_from_gcs.
NextStt ==
    \/ CallFromFile \/ SttIsFile \/ SttGate \/ SttConvert \/ SttSync
    \/ SttSyncRaises \/ SttExhausted \/ SttAfterLoop \/ SttViaGcs
    \/ SttUpload \/ SttUploadRaises \/ SttLongRunning
    \/ SttLongRunningRaises \/ CallFromGcs \/ SttFromGcs
    \/ SttFromGcsRaises

SpecStt == Init /\ [][NextStt]_vars

\* The params of the jobs of SpecRun.
ParamsSet ==
    [diarization_speaker_count : 0..MaxSpeakers,
     enable_word_time_offsets : {None, "False", "True"}]

\* The arguments of enqueue in SpecRun: every source with every params.
ParamSources ==
    {[src EXCEPT !.params = prm] : src \in Sources, prm \in ParamsSet}

\* The steps of _run after a source was accepted, with the recognition call
\* made step by step.
RunSourceStt(w) ==
    \/ YtDownload(w) \/ YtDownloadRaises(w) \/ YtSaveFile(w)
    \/ YtSaveFileRaises(w) \/ YtUpload(w) \/ YtUploadRaises(w)
    \/ YtSaveUri(w) \/ YtSaveUriRaises(w) \/ Upload(w) \/ UploadRaises(w)
    \/ SaveUri(w) \/ SaveUriRaises(w) \/ RecognizeCall(w)
    \/ RecognizeReturn(w)
    \/ WriteOpen(w) \/ WriteOpenRaises(w) \/ WriteDump(w)
    \/ WriteDumpRaises(w) \/ SetResultPath(w) \/ SetDone(w) \/ SaveDone(w)
    \/ SaveDoneRaises(w)

\* One request thread that enqueues MaxJobsSpec jobs with every kind of
\* params, and the worker, whose recognition call runs the functions of
\* google_stt.py.
NextRun ==
    \/ \E c \in OneCaller : GetManager(c)
    \/ \E c \in OneCaller : Enqueue(c, MaxJobsSpec, ParamSources)
    \/ \E w \in Workers : RunCommon(w)
    \/ \E w \in Workers : RunSourceStt(w)
    \/ SttIsFile \/ SttFromGcs \/ SttFromGcsRaises

SpecRun == Init /\ [][NextRun]_vars

-----------------------------------------------------------------------------
\* Properties

\* One step in the order queued -> processing -> done | error.
Precedes(s, t) ==
    <<s, t>> \in { <<"queued", "processing">>, <<"processing", "done">>,
                   <<"processing", "error">> }

\* C1: as long as the process runs, the status of an in-memory Job only moves
\* along queued, processing, then done or error: each step leaves it as it is
\* or moves it one step on (the object appearing as queued included); it
\* never goes back and never changes from one of done and error to the other.
C1_StatusMovesForward ==
    [][restarts' = restarts =>
          \A j \in JobIds :
             \/ job'[j].status = job[j].status
             \/ job[j].status = "absent" /\ job'[j].status = "queued"
             \/ Precedes(job[j].status, job'[j].status)]_vars

\* C2: for every job with a snapshot, the snapshot's status is the in-memory
\* status or the one just before it; stated for the runs in which no call
\* fails, where only the interleaving of enqueue's save with the worker's
\* saves decides.
C2_SnapshotAtMostOneStepBehind ==
    faults = 0 =>
       \A j \in JobIds :
          (job[j].status # "absent" /\ snap[j].status # "absent") =>
             \/ snap[j].status = job[j].status
             \/ Precedes(snap[j].status, job[j].status)

\* The worker threads that start() has created.
Started == {w \in Workers : worker[w].pc # "none"}

C5_WorkerSurvives == \A w \in Workers : worker[w].pc # "dead"

\* C6: with threads that keep running, every job that enqueue put into the
\* table eventually has status done or error.
C6_EveryJobEnds ==
    \A j \in JobIds :
       (job[j].status = "queued") ~> (job[j].status \in {"done", "error"})

\* C7: neither the in-memory Job nor a snapshot has both a result path and an
\* error.
C7_NotResultAndError ==
    \A j \in JobIds :
       /\ ~(job[j].result_path # 0 /\ job[j].error # None)
       /\ ~(snap[j].result_path # 0 /\ snap[j].error # None)

\* The worker is through with job j.
Finished(j) == \A w \in Workers : worker[w].job # j

\* C8: a job is done, in memory or in its snapshot, only if recognition
\* returned a transcript with text and the result file holds it; a job whose
\* recognition returned nothing or an empty transcript has no result file,
\* and once the worker is through with it its status is error with the
\* empty-result message.
C8_DoneOnlyWithTranscript ==
    \A j \in JobIds :
       /\ (job[j].status = "done" \/ snap[j].status = "done") =>
             (recog[j] = "text" /\ results[j] = "text")
       /\ recog[j] \in {"null", "empty"} =>
             /\ results[j] = "absent"
             /\ (Finished(j) /\ job[j].status # "absent") =>
                   (job[j].status = "error" /\ job[j].error = EmptyResultMsg)

\* A job that is done next to a job that failed for an empty result.
C8_Witness ==
    \E j, k \in JobIds :
       /\ job[j].status = "done" /\ snap[j].status = "done"
       /\ recog[k] \in {"null", "empty"} /\ Finished(k)
       /\ job[k].status = "error"

\* What the status query answers for id from the files alone, the job table
\* being empty (routes.py:190-221).
DiskAnswer(id) ==
    IF load_job_state(id).status # "absent"
    THEN SnapshotAnswer(load_job_state(id))
    ELSE IF IsFile(id) THEN Resp(3, "done", id, None) ELSE NotFound

\* C9: when the process restarts after a status query has answered done or
\* error for a job, the query after the restart answers the same status and
\* the same result locator; stated for the runs in which no call fails and
\* for a restart after the worker is through with the job.
C9_SameAnswerAfterRestart ==
    [][(restarts' = restarts + 1 /\ faults = 0) =>
          \A c \in Callers, j \in JobIds :
             (/\ caller[c].pc = "st_ret"
              /\ caller[c].id = j
              /\ caller[c].resp.status \in {"done", "error"}
              /\ Finished(j)) =>
                /\ DiskAnswer(j)'.status = caller[c].resp.status
                /\ DiskAnswer(j)'.locator = caller[c].resp.locator]_vars

\* C10: each tier of the status query is asked only after every tier before
\* it had no entry, finds an entry exactly when the tier has one, and the
\* answer comes from the first tier that found one: tier 3 answers done, and
\* the answer is 'Job not found' only when no tier had an entry.
C10_FirstTierAnswers ==
    [][\A c \in Callers :
          LET a == caller[c]
              b == caller'[c]
          IN  /\ (a.t1 = "unasked" /\ b.t1 # "unasked") =>
                    (b.t1 = "hit" <=> a.id \in jobs[a.mgr])
              /\ (a.t2 = "unasked" /\ b.t2 # "unasked") =>
                    /\ a.t1 = "miss"
                    /\ b.t2 = "hit" <=> snap[a.id].status # "absent"
              /\ (a.t3 = "unasked" /\ b.t3 # "unasked") =>
                    /\ a.t1 = "miss" /\ a.t2 = "miss"
                    /\ b.t3 = "hit" <=> results[a.id] # "absent"
              /\ (a.pc # "st_ret" /\ b.pc = "st_ret") =>
                    /\ b.resp.tier = 1 =>
                          (b.t1 = "hit" /\ b.t2 = "unasked" /\ b.t3 = "unasked")
                    /\ b.resp.tier = 2 =>
                          (b.t1 = "miss" /\ b.t2 = "hit" /\ b.t3 = "unasked")
                    /\ b.resp.tier = 3 =>
                          /\ b.t1 = "miss" /\ b.t2 = "miss" /\ b.t3 = "hit"
                          /\ b.resp.status = "done"
                    /\ b.resp = NotFound <=>
                          (b.t1 = "miss" /\ b.t2 = "miss" /\ b.t3 = "miss")
                    /\ b.resp.tier \in {1, 2, 3} \/ b.resp = NotFound]_vars

\* After a restart a query finds a job in its snapshot, the table having no
\* entry for it.
C10_Witness ==
    \E c \in Callers :
       /\ caller[c].pc = "st_ret"
       /\ caller[c].id \in JobIds
       /\ caller[c].resp.tier = 2
       /\ caller[c].resp.status = "done"
       /\ caller[c].resp.locator = caller[c].id

\* What the status query answers from a Job of the table (routes.py:177-188).
TableAnswer(jb) ==
    IF jb.status = "done" /\ jb.result_path # 0 /\ IsFile(jb.result_path)
    THEN Resp(1, "done", jb.result_path, None)
    ELSE IF jb.status = "error"
         THEN Resp(1, "error", 0, IF jb.error = None THEN "unknown" ELSE jb.error)
         ELSE Resp(1, jb.status, 0, None)

\* What a status query for id answers when it runs now, from its first step
\* to its last with no step of another thread in between.
QueryAnswer(id) ==
    IF _manager # 0 /\ id \in jobs[_manager]
    THEN TableAnswer(job[id])
    ELSE DiskAnswer(id)

\* C11: once a status query has returned done with a result locator for a
\* job, a query for that job that runs from then on returns done with the
\* same locator; stated for the time before the process restarts.
C11_DoneAnswerStays ==
    restarts = 0 =>
       \A c \in Callers :
          (/\ caller[c].pc = "st_ret"
           /\ caller[c].resp.status = "done"
           /\ caller[c].resp.locator # 0) =>
             /\ QueryAnswer(caller[c].id).status = "done"
             /\ QueryAnswer(caller[c].id).locator = caller[c].resp.locator

\* C13: the result file at its final path is never partially written.
C13_ResultFileNeverPartial == \A i \in QueryIds : results[i] # "partial"

\* The documents _job_to_state produces for job id.
Documents(id) == {_job_to_state(jb) : jb \in JobStates(id)}

\* C12: the file jobs/<id>.json is absent or holds one complete document
\* that _job_to_state produced, and a reader that found the file gets such a
\* document, whatever the writers are doing.
C12_SnapshotNeverTorn ==
    /\ \A id \in JobIds : snap[id] = NoSnap \/ snap[id] \in Documents(id)
    /\ \A c \in Callers :
          (caller[c].pc = "ld_ret" /\ caller[c].t2 = "hit") =>
             caller[c].state \in Documents(caller[c].id)

\* A reader has read the snapshot of a job while a writer, which has written
\* its temp file for the same job with another document, has not installed it.
C12_Witness ==
    \E c, d \in Callers :
       /\ caller[c].pc = "ld_ret" /\ caller[c].t2 = "hit"
       /\ caller[d].pc = "aw_replace" /\ caller[d].id = caller[c].id
       /\ caller[d].state # caller[c].state
       /\ caller[c].state = snap[caller[c].id]

\* The positions of _run in a call that waits for a provider: the download
\* (tasks.py:215), the uploads (tasks.py:221, 251) and the recognition
\* (tasks.py:254-273).
Blocked == {"yt_download", "yt_upload", "upload", "recognize"}

PastUrlCheck ==
    {"yt_download", "yt_save_file", "yt_upload", "yt_save_uri", "upload",
     "save_uri", "recognize", "write_open", "write_dump", "set_result_path",
     "set_done", "save_done"}

\* For a job whose one source is a URL that fails the pattern, no download, no
\* upload and no recognition call is made.
NoProviderCall(j) ==
    /\ \A w \in Workers : worker[w].job = j => worker[w].pc \notin PastUrlCheck
    /\ job[j].file_path = None /\ job[j].gcs_uri = None
    /\ recog[j] = None /\ results[j] = "absent"

\* The worker took job j from the queue and is through with it.
Handled(j) == Finished(j) /\ job[j].status \notin {"absent", "queued"}

\* C15 as stated: a job whose one source is a URL that fails the pattern gets
\* no download, no upload and no recognition, and when the worker is through
\* with it its status is error and its message is the one of the URL check.
C15_BadUrlValidationError ==
    \A j \in JobIds :
       job[j].youtube_url = "other" =>
          /\ NoProviderCall(j)
          /\ Handled(j) =>
                (job[j].status = "error" /\ job[j].error = UrlValidationMsg)

\* C15: a job whose one source is a URL that fails the pattern gets no
\* download, no upload and no recognition, and when the worker is through
\* with it its status is error; its message is the one of the URL check
\* unless save_job_state raised at tasks.py:201, before the check, and then it
\* is the message of that exception.
C15_BadUrlNoCallsAndError ==
    \A j \in JobIds :
       job[j].youtube_url = "other" =>
          /\ NoProviderCall(j)
          /\ Handled(j) =>
                /\ job[j].status = "error"
                /\ job[j].error \in {UrlValidationMsg, "OSError"}
                /\ faults = 0 => job[j].error = UrlValidationMsg

\* A job with a URL that fails the pattern has failed at the URL check and
\* its snapshot says so.
C15_Witness ==
    \E j \in JobIds :
       /\ job[j].youtube_url = "other" /\ Handled(j)
       /\ job[j].error = UrlValidationMsg
       /\ snap[j].status = "error" /\ snap[j].error = UrlValidationMsg

\* C16: when the worker is at the recognition call of a job that has a local
\* file, the file was uploaded, job.gcs_uri is set, the save_job_state of this
\* run that came last wrote that URI, and the call is given the URI; no
\* recognition was ever made for a job with a local file and no URI.
C16_UploadBeforeRecognition ==
    /\ \A w \in Workers :
          (worker[w].pc = "recognize"
              /\ ~Falsy(job[worker[w].job].file_path)) =>
             /\ ~Falsy(job[worker[w].job].gcs_uri)
             /\ worker[w].saved = job[worker[w].job].gcs_uri
             /\ Reference(job[worker[w].job]) = "gcs_uri"
    /\ \A j \in JobIds :
          (recog[j] # None /\ ~Falsy(job[j].file_path)) =>
             ~Falsy(job[j].gcs_uri)

\* The worker is at the recognition call of a job whose file it downloaded,
\* after the recognition of a job whose file a caller uploaded.
C16_Witness ==
    \E w \in Workers, k \in JobIds :
       /\ worker[w].pc = "recognize"
       /\ job[worker[w].job].file_path = "download"
       /\ worker[w].saved = "uploaded"
       /\ job[k].file_path = "upload" /\ recog[k] = "text"

\* A call of stt_google_from_file for a file over the inline ceiling.
Oversize ==
    stt.fn = "file" /\ stt.isfile /\ stt.size > STT_INLINE_MAX_BYTES

\* C17: for a file over the inline ceiling there is no synchronous call and
\* no conversion, and when the call has returned it has made one long-running
\* call, with the primary language.
C17_OversizeOneRemoteCall ==
    Oversize =>
       /\ stt.sync = <<>> /\ stt.tmp_wav = "unset"
       /\ Len(stt.gcs) <= 1
       /\ (stt.pc = "ret" /\ stt.exc = None) =>
             (Len(stt.gcs) = 1 /\ stt.gcs[1].lang = stt.language_code)

\* C18: a synchronous call that returned a transcript with text is the last
\* synchronous call, no long-running call is made, and its result is what the
\* function returns.
C18_FirstTranscriptWins ==
    \A k \in 1..Len(stt.sync) :
       stt.sync[k].resp = "text" =>
          /\ k = Len(stt.sync)
          /\ stt.gcs = <<>>
          /\ stt.pc \in {"after_loop", "ret"}
          /\ stt.pc = "ret" =>
                stt.ret = Result("sync", stt.sync[k].lang, "text")

\* The primary language gave an empty transcript, the first fallback language
\* a transcript with text, a second fallback language is left, and the
\* function has returned.
C18_Witness ==
    /\ stt.pc = "ret" /\ Len(stt.sync) = 2
    /\ stt.sync[1].resp = "empty" /\ stt.sync[2].resp = "text"
    /\ Len(try_langs(stt.language_code, stt.fallbacks)) = 3
    /\ stt.ret.meta.lang = stt.sync[2].lang

\* C19: a synchronous call that failed for the duration limit is the last
\* synchronous call, and when the function has returned it has made one
\* long-running call, with the language of that call.
C19_DurationLimitOneRemoteCall ==
    \A k \in 1..Len(stt.sync) :
       _inline_duration_limit_err(stt.sync[k].resp) =>
          /\ k = Len(stt.sync)
          /\ Len(stt.gcs) <= 1
          /\ (stt.pc = "ret" /\ stt.exc = None) =>
                (Len(stt.gcs) = 1 /\ stt.gcs[1].lang = stt.sync[k].lang)

\* The configs of the calls of the provider made so far.
Configs ==
    {stt.sync[k].diar : k \in 1..Len(stt.sync)}
       \cup {stt.gcs[k].diar : k \in 1..Len(stt.gcs)}

\* C20: for a speaker count N > 0 every config has diarization enabled with
\* min = max(2, N) and max = N, so 3 and 3 for N = 3; for no count or 0 no
\* config has speaker counts.
C20_DiarizationBounds ==
    \A d \in Configs :
       /\ stt.N > 0 =>
             /\ d.enable
             /\ d.max = stt.N
             /\ d.min >= 2 /\ d.min >= stt.N /\ d.min \in {2, stt.N}
       /\ stt.N = 3 => (d.min = 3 /\ d.max = 3)
       /\ stt.N = 0 => (d.min = 0 /\ d.max = 0)

\* A call with one speaker has made a synchronous and a long-running call,
\* both with min 2 and max 1.
C20_Witness ==
    /\ stt.N = 1 /\ Len(stt.sync) >= 1 /\ Len(stt.gcs) = 1
    /\ \A d \in Configs : d.min = 2 /\ d.max = 1

\* C21: for a job with a speaker count the word-time-offsets value of the
\* recognition call and of the configs it builds, and the value in the params
\* of the result document, are true whatever the caller gave; with no speaker
\* count they are the caller's value, false when it gave none.
C21_WordOffsetsForced ==
    \A w \in Workers :
       LET prm == job[worker[w].job].params
           forced == IF prm.diarization_speaker_count > 0 THEN TRUE
                     ELSE prm.enable_word_time_offsets = "True"
       IN /\ worker[w].pc = "recognizing" =>
                /\ stt.enable_word_time_offsets = forced
                /\ \A k \in 1..Len(stt.gcs) :
                      stt.gcs[k].enable_word_time_offsets = forced
          /\ worker[w].pc \in {"write_open", "write_dump"} =>
                payload(w).params.enable_word_time_offsets = forced

\* The result document of a job with a speaker count whose caller gave false
\* is being written.
C21_Witness ==
    \E w \in Workers :
       /\ worker[w].pc = "write_dump"
       /\ job[worker[w].job].params.diarization_speaker_count > 0
       /\ job[worker[w].job].params.enable_word_time_offsets = "False"
       /\ payload(w).params.enable_word_time_offsets

\* Job j is on a queue.
InQueue(j) == \E m \in Managers : \E k \in 1..Len(q[m]) : q[m][k] = j

\* The positions of _run after the status of the job was set to done, and in
\* the handler.
AfterEnd == {"save_done", "except_status", "except_error", "except_save"}

\* A job that is done or failed is on no queue, and a worker that still has it
\* is past every acquisition and recognition step; no job is on a queue while
\* a worker has it.
NotAgain ==
    \A j \in JobIds :
       /\ job[j].status \in {"done", "error"} =>
             /\ ~InQueue(j)
             /\ \A w \in Workers : worker[w].job = j => worker[w].pc \in AfterEnd
       /\ InQueue(j) =>
             (job[j].status = "queued" /\ \A w \in Workers : worker[w].job # j)

\* A job is put on a queue only when it is new, and a worker takes from the
\* queue only a job that is queued and that no worker has.
OnlyOnce ==
    \A j \in JobIds :
       /\ (InQueue(j)' /\ ~InQueue(j)) =>
             /\ job[j].status = "queued" /\ recog[j] = None
             /\ \A w \in Workers : worker[w].job # j
       /\ \A w \in Workers :
             (worker'[w].job = j /\ worker[w].job # j) =>
                /\ InQueue(j) /\ ~InQueue(j)' /\ job[j].status = "queued"
                /\ \A v \in Workers : worker[v].job # j

\* C22: every job is put on the queue once and taken from it once; after it
\* is done or failed it is never on the queue again and no acquisition or
\* recognition step runs for it again.
C22_ProcessedAtMostOnce == []NotAgain /\ [][OnlyOnce]_vars

\* A job has failed, the worker is through with it and waits at an empty
\* queue.
C22_Witness ==
    \E j \in JobIds, w \in Workers :
       /\ job[j].status = "error" /\ Handled(j)
       /\ worker[w].pc = "idle" /\ q[w[1]] = <<>>
       /\ recog[j] # None

\* The positions of stt_google_from_file behind the check of the file: the
\* inline-size gate, the conversion, the loop and the remote path.
BehindIsFile ==
    {"gate", "convert", "loop", "after_loop", "via_gcs", "gcs_upload",
     "gcs_recognize"}

\* C23: the recognition call of the worker makes no synchronous call: a job
\* with a local file is recognized by stt_google_from_gcs with its URI, and
\* stt_google_from_file is called only with a path that is no file, so that
\* it never gets to its gate, its conversion or its loop.
C23_WorkerNeverInline ==
    /\ stt.sync = <<>> /\ stt.tmp_wav = "unset"
    /\ stt.pc \notin BehindIsFile
    /\ stt.fn = "file" => ~stt.isfile
    /\ \A w \in Workers :
          (worker[w].pc = "recognizing"
              /\ job[worker[w].job].file_path \in {"upload", "download"}) =>
             (stt.fn = "gcs" /\ ~Falsy(job[worker[w].job].gcs_uri))
    /\ \A j \in JobIds : recog[j] \in {"text", "empty"} => ~Falsy(job[j].gcs_uri)

\* The long-running call for a job with a file a caller uploaded has returned.
C23_Witness ==
    \E w \in Workers :
       /\ worker[w].pc = "recognizing"
       /\ job[worker[w].job].file_path = "upload"
       /\ stt.fn = "gcs" /\ stt.pc = "ret" /\ Len(stt.gcs) = 1

\* Every language of the list was tried and every call returned an empty
\* transcript.
AllEmpty ==
    /\ stt.fn = "file" /\ stt.tmp_wav # "unset"
    /\ Len(stt.sync) = Len(try_langs(stt.language_code, stt.fallbacks))
    /\ \A k \in 1..Len(stt.sync) : stt.sync[k].resp = "empty"

\* C24: when every language was tried and every call returned an empty
\* transcript, the function, when it has returned, has made one long-running
\* call, with the primary language, and returns its result.
C24_ExhaustedOneRemoteCall ==
    AllEmpty =>
       /\ Len(stt.gcs) <= 1
       /\ (stt.pc = "ret" /\ stt.exc = None) =>
             /\ Len(stt.gcs) = 1
             /\ stt.gcs[1].lang = stt.language_code
             /\ stt.ret = Result("gcs", stt.language_code, stt.gcs[1].resp)

\* C25: every long-running call of stt_google_from_file after a conversion
\* that gave a file forces LINEAR16 at 16000 Hz.
C25_ConvertedForcesLinear16 ==
    \A k \in 1..Len(stt.gcs) :
       (stt.fn = "file" /\ stt.tmp_wav = "wav") => stt.gcs[k].force

\* The calls of the provider made so far.
Calls ==
    {stt.sync[k] : k \in 1..Len(stt.sync)}
       \cup {stt.gcs[k] : k \in 1..Len(stt.gcs)}

\* C26: a model the caller gave is the model of every config, and a
\* use_enhanced the caller gave, False included, is the use_enhanced of every
\* config.
C26_ExplicitModelWins ==
    \A c \in Calls :
       /\ stt.model # None => c.model = stt.model
       /\ stt.use_enhanced # None =>
             c.use_enhanced = (stt.use_enhanced = "True")

\* C27: every config with diarization enabled and no model from the caller
\* has the model "video" with use_enhanced when the language of the job is in
\* VIDEO_LANGS, and the default model otherwise.
C27_VideoModelForDiarization ==
    \A c \in Calls :
       (c.diar.enable /\ stt.model = None) =>
          IF stt.language_code \in VIDEO_LANGS
          THEN c.model = "video" /\ c.use_enhanced
          ELSE c.model = ""

\* C28: for a speaker count N > 0 every diarization config has
\* min_speaker_count <= max_speaker_count.
C28_MinAtMostMax ==
    \A d \in Configs : stt.N > 0 => d.min <= d.max

\* C29: a synchronous call that failed for another reason than the duration
\* limit is the last call of the function: no synchronous and no long-running
\* call follows, and the function has raised that exception.
C29_OtherFailureRaised ==
    \A k \in 1..Len(stt.sync) :
       stt.sync[k].resp = "other" =>
          /\ k = Len(stt.sync)
          /\ stt.gcs = <<>>
          /\ stt.pc = "ret" /\ stt.exc = "other" /\ stt.ret = NoResult

\* The call for the second language of the list failed for another reason,
\* with a third language left and a bucket to upload to.
C29_Witness ==
    /\ Len(stt.sync) = 2 /\ stt.sync[2].resp = "other"
    /\ Len(try_langs(stt.language_code, stt.fallbacks)) = 3
    /\ stt.bucket /\ stt.pc = "ret"

\* The positions of the fallback list that hold a language to try.
Kept ==
    {i \in 1..Len(stt.fallbacks) :
        stt.fallbacks[i] \notin {"", stt.language_code}}

\* C30: the first synchronous call is for the primary language and no later
\* one is; the call after it are for the fallback languages in their order,
\* none left out; every call has the same audio.
C30_AttemptOrder ==
    \A k \in 1..Len(stt.sync) :
       /\ (stt.sync[k].lang = stt.language_code) <=> (k = 1)
       /\ k > 1 =>
             \E i \in Kept :
                /\ Cardinality({h \in Kept : h < i}) = k - 2
                /\ stt.sync[k].lang = stt.fallbacks[i]
       /\ stt.sync[k].audio = stt.sync[1].audio

\* The primary language is in the fallback list before another language, and
\* the call for that other language is the second call.
C30_Witness ==
    /\ Len(stt.fallbacks) = 2 /\ stt.fallbacks[1] = stt.language_code
    /\ stt.fallbacks[2] \notin {"", stt.language_code}
    /\ Len(stt.sync) = 2 /\ stt.sync[2].lang = stt.fallbacks[2]
    /\ stt.sync[2].audio = "tmp_wav"

\* The recognition calls of the call under way that returned a transcript
\* with text, each with the tag of its path.
Producers ==
    {<<"sync", stt.sync[k]>> : k \in {i \in 1..Len(stt.sync) :
                                         stt.sync[i].resp = "text"}}
    \cup {<<"gcs", stt.gcs[k]>> : k \in {i \in 1..Len(stt.gcs) :
                                            stt.gcs[i].resp = "text"}}

\* C31: a result with a transcript that stt_google_from_file or
\* stt_google_from_gcs returns comes from exactly one recognition call, and
\* its meta carries the path tag and the language of that call and the
\* diarization bounds, the model and the use_enhanced of that call's config.
C31_MetaOfProducingCall ==
    (stt.pc = "ret" /\ stt.ret.transcript = "text") =>
       /\ Cardinality(Producers) = 1
       /\ \A p \in Producers :
             /\ stt.ret.meta.via = p[1]
             /\ stt.ret.meta.lang = p[2].lang
             /\ stt.ret.meta.diarization_enabled = p[2].diar.enable
             /\ stt.ret.meta.diarization_min = p[2].diar.min
             /\ stt.ret.meta.diarization_max = p[2].diar.max
             /\ stt.ret.meta.model = p[2].model
             /\ stt.ret.meta.use_enhanced = p[2].use_enhanced

\* stt_google_from_file returned the transcript of a synchronous call in a
\* fallback language, made with three speakers and the model "video".
C31_Witness ==
    /\ stt.pc = "ret" /\ stt.ret.transcript = "text"
    /\ stt.fn = "file" /\ Len(stt.sync) = 2
    /\ stt.ret.meta.via = "sync"
    /\ stt.ret.meta.lang # stt.language_code
    /\ stt.ret.meta.diarization_max = 3
    /\ stt.ret.meta.model = "video"

\* The Job of j is through: its status is done, or it is error and the
\* handler has assigned the message (tasks.py:305-306 taken as one change).
Terminal(j) ==
    \/ job[j].status = "done"
    \/ job[j].status = "error" /\ job[j].error # None

\* C32: no step of the running process changes a field of a Job that is
\* through (status, result_path, error, file_path, gcs_uri, params).
C32_TerminalJobImmutable ==
    [][\A j \in JobIds :
          (Terminal(j) /\ restarts' = restarts) => job'[j] = job[j]]_vars

\* C33: a status query that has read status error from the Job in the table
\* (routes.py:186) finds the message of the Job assigned.
C33_ErrorSeenWithMessage ==
    \A c \in Callers :
       caller[c].pc = "st_message" => job[caller[c].id].error # None

\* The result file of job j holds the whole document.
Complete(j) == results[j] \notin {"absent", "partial"}

\* C34: a Job with a result_path has its result file complete; a Job that is
\* done has its result_path; a snapshot that says done has the result_path,
\* the file is complete and the Job in memory was set to done before (it is
\* not queued or processing); and a status query that answered done from the Job or
\* from the snapshot did so for a job whose result file is complete.
C34_DoneAfterResultWritten ==
    /\ \A j \in JobIds :
          /\ job[j].result_path # 0 => Complete(j)
          /\ job[j].status = "done" => job[j].result_path = j
          /\ snap[j].status = "done" =>
                /\ snap[j].result_path = j /\ Complete(j)
                /\ job[j].status \notin {"queued", "processing"}
    /\ \A c \in Callers :
          (caller[c].resp.tier \in {1, 2} /\ caller[c].resp.status = "done")
             => Complete(caller[c].id)

\* A status query has answered done from the Job in the table while the
\* worker has set done and not yet saved the snapshot.
C34_Witness ==
    \E c \in Callers :
       /\ caller[c].resp.tier = 1 /\ caller[c].resp.status = "done"
       /\ job[caller[c].id].status = "done"
       /\ snap[caller[c].id].status = "processing"
       /\ \E w \in Workers : worker[w].pc = "save_done"

\* The WAV of the conversion is on disk while stt_google_from_file can still
\* read or upload it, and when the function has returned it is gone, or left
\* by a removal that failed.
WavRemoved ==
    /\ (stt.tmp_wav = "wav"
          /\ stt.pc \in {"loop", "after_loop", "via_gcs", "gcs_upload",
                         "gcs_recognize"}) => files.wav = "present"
    /\ stt.pc \in {"ret", "none"} => files.wav # "present"

\* The file downloaded for job j is on disk when the worker uploads it, and
\* it is gone once the job is done or error and the worker is through with
\* it.
DownloadRemoved ==
    \A j \in JobIds :
       /\ (\E w \in Workers : worker[w].job = j /\ worker[w].pc = "yt_upload")
             => j \in files.download
       /\ (job[j].status \in {"done", "error"} /\ Finished(j))
             => j \notin files.download

\* C35: every temporary file of the pipeline, the WAV of the conversion and
\* the audio downloaded from an origin URL, exists while a recognition or
\* upload step reads it and is removed once the job is terminal.
C35_TempFilesRemoved == WavRemoved /\ DownloadRemoved

\* C36: with one request thread and one worker, job ids are handed out in the
\* order of the calls of enqueue, each call being over before the next is
\* made; a job that is no longer queued has every job enqueued before it done
\* or error, so the earlier job was processing first.
C36_FifoStart ==
    \A j, k \in JobIds :
       (j < k /\ job[k].status \notin {"absent", "queued"}) =>
          job[j].status \in {"done", "error"}

\* Both jobs were on the queue together, the first is done and the second is
\* processing.
C36_Witness ==
    /\ job[1].status = "done" /\ job[2].status = "processing"
    /\ snap[2].status = "queued"

\* Job j was left behind by a restart: the process has no Job object for it
\* and its snapshot says queued or processing.
Orphan(j) ==
    /\ job[j].status = "absent"
    /\ snap[j].status \in {"queued", "processing"}

\* C37: a job that a restart left behind with a snapshot that says queued or
\* processing is in no queue and no job table and no worker has it; its
\* snapshot stays as it is in every step; and a status query for it answers
\* from the snapshot with that status.
C37_NoRecoveryAfterRestart ==
    /\ [](\A j \in JobIds :
            Orphan(j) =>
               /\ \A m \in Managers :
                     /\ j \notin jobs[m]
                     /\ \A i \in 1..Len(q[m]) : q[m][i] # j
               /\ \A w \in Workers : worker[w].job # j
               /\ \A c \in Callers :
                     (caller[c].pc = "st_ret" /\ caller[c].id = j) =>
                        caller[c].resp = Resp(2, snap[j].status, 0, None))
    /\ [][\A j \in JobIds : Orphan(j) => snap'[j] = snap[j]]_vars

\* After the restart a job was enqueued and the worker of the new process
\* has handled it, while the status query for the job left behind answers
\* processing.
C37_Witness ==
    \E j, k \in JobIds, c \in Callers :
       /\ Orphan(j) /\ snap[j].status = "processing"
       /\ job[k].status = "error" /\ Finished(k)
       /\ caller[c].pc = "st_ret" /\ caller[c].id = j
       /\ caller[c].resp.status = "processing"

====
